---- MODULE Spec2Model ----
(***************************************************************************)
(* Assessment Session & Progression Engine of the digital competency       *)
(* platform: the AssessmentSession document (submitAnswer, markCompleted,  *)
(* addCheatingFlag, the timer, the pre-save hook) and the                  *)
(* AssessmentProgress document (updateStepProgress, its pre-save hook).    *)
(*                                                                         *)
(* `session' is the mongoose document, `progress' the user's aggregate,    *)
(* `now' the wall clock in milliseconds since the session's startTime,       *)
(* `submits' the number of submitAnswer calls made so far, `lastSubmit'     *)
(* the arguments of the latest one with the error it threw ("none" when    *)
(* it returned), `completions' the number of markCompleted calls,          *)
(* `timerRead' what the latest getRemainingTime / isExpired calls returned *)
(* and when they were made, `flags' the number of addCheatingFlag calls,   *)
(* `progressCalls' the calls made on the progress document, in order, with *)
(* their arguments, `reqs' the requests that work on their own loaded copy *)
(* of a stored document (empty where a single caller is modelled),         *)
(* `bank' the stored Question documents in insertion order, `selected'     *)
(* the result of the latest getQuestionsForStep query, `user' the stored   *)
(* User document, `authLog' what the login and OTP requests answered so   *)
(* far came to (the latest one with its response, and how many were        *)
(* answered in which way), `attempts' the counters of the routes' rate     *)
(* limiter, per route and client address.                                  *)
(* An optional field (endTime, score, ...) is <<>> while undefined and     *)
(* <<v>> once it holds v.                                                  *)
(***************************************************************************)
EXTENDS Integers, Sequences, FiniteSets, TLC

VARIABLES session, progress, now, lastSubmit, submits, completions, timerRead,
          flags, progressCalls, reqs, bank, selected, user, authLog, attempts

vars == <<session, progress, now, lastSubmit, submits, completions, timerRead,
          flags, progressCalls, reqs, bank, selected, user, authLog, attempts>>

-----------------------------------------------------------------------------
(* Bounds of the model *)

\* submitAnswer calls explored on one session
MaxSubmits == 2
\* markCompleted calls explored on one session
MaxCompletions == 2
\* addCheatingFlag calls explored on one session
MaxFlags == 1
\* questions of a scoring-scenario session (one point each)
MaxScenarioQuestions == 44
\* updateStepProgress calls explored on one progress record
MaxTaken == 2
\* questions of a session that receives cheating flags (one point each)
MaxFlaggedQuestions == 2
\* calls explored on one progress record, of all its methods together
MaxProgressCalls == 3
\* questions in the bank a session is selected from
MaxBank == 50
\* bank questions whose statistics change while sessions are created
MaxTouched == 1
\* answers counted on one bank question
MaxTimesAnswered == 2

(* Program constants *)

\* timeAllowed: min 1800 seconds
MinTimeAllowed == 1800
PassThreshold == 25
HighLevelThreshold == 50
AdvanceThreshold == 75
FinalStep == 3

-----------------------------------------------------------------------------
(* Optional values *)

Undefined == <<>>
Some(v) == <<v>>
IsSet(o) == o # <<>>
Val(o) == o[1]

-----------------------------------------------------------------------------
(* Enumerations (types/index.ts) *)

AssessmentStep == {1, 2, 3}
NOT_STARTED == "not_started"
IN_PROGRESS == "in_progress"
COMPLETED == "completed"
MULTIPLE_CHOICE == "multiple_choice"
TRUE_FALSE == "true_false"

\* JavaScript's default sort orders strings by code unit: "a" < "b" < "c"
OptionIds == <<"a", "b">>

Rank(id) == CHOOSE i \in 1..Len(OptionIds) : OptionIds[i] = id

\* Instants the wall clock takes (ms after startTime): the start and the
\* instant the time budget elapses.
TimePoints == {0, MinTimeAllowed * 1000}

-----------------------------------------------------------------------------
(* Question snapshots *)

Opt(id, ok) == [id |-> id, isCorrect |-> ok]

Q1 == [questionId |-> "q1", points |-> 1, questionType |-> MULTIPLE_CHOICE,
       options |-> <<Opt("a", TRUE), Opt("b", FALSE)>>]
Q2 == [questionId |-> "q2", points |-> 2, questionType |-> MULTIPLE_CHOICE,
       options |-> <<Opt("b", TRUE), Opt("a", TRUE)>>]
Q3 == [questionId |-> "q3", points |-> 1, questionType |-> TRUE_FALSE,
       options |-> <<Opt("a", TRUE), Opt("b", FALSE)>>]

\* The snapshots a session is created with
Snapshots == {<<Q1, Q2>>, <<Q2, Q3>>}

\* questionIds a request may name: those of the bank (every snapshot lacks
\* one of them)
QuestionIds == {"q1", "q2", "q3"}

\* selectedAnswers arrays a request may carry: nothing, one id, two ids in
\* either order, one id twice
Selections == {<<>>, <<"a">>, <<"a", "b">>, <<"b", "a">>, <<"a", "a">>}

TimesSpent == {30}

-----------------------------------------------------------------------------
(* Array helpers *)

\* findIndex(x => x.questionId === questionId), 1-based; 0 when no element
\* matches (JS: -1)
IndexOfId(seq, questionId) ==
  IF \E i \in 1..Len(seq) : seq[i].questionId = questionId
  THEN CHOOSE i \in 1..Len(seq) :
         /\ seq[i].questionId = questionId
         /\ \A j \in 1..(i - 1) : seq[j].questionId # questionId
  ELSE 0

\* Array.prototype.sort on option ids
RECURSIVE Insert(_, _)
Insert(x, sorted) ==
  IF sorted = <<>> THEN <<x>>
  ELSE IF Rank(x) <= Rank(Head(sorted)) THEN <<x>> \o sorted
       ELSE <<Head(sorted)>> \o Insert(x, Tail(sorted))

RECURSIVE Sort(_)
Sort(seq) == IF seq = <<>> THEN <<>> ELSE Insert(Head(seq), Sort(Tail(seq)))

-----------------------------------------------------------------------------
(* AssessmentSession *)

NewSession(step, questions) ==
  [ step |-> step,
    status |-> NOT_STARTED,
    questions |-> questions,
    startTime |-> 0,
    endTime |-> Undefined,
    timeAllowed |-> MinTimeAllowed,
    answers |-> <<>>,
    score |-> Undefined,
    percentage |-> Undefined,
    levelAchieved |-> "none",
    passed |-> FALSE,
    canProceedToNextStep |-> FALSE,
    nextStepUnlockedAt |-> Undefined,
    isCompleted |-> FALSE,
    isSubmitted |-> FALSE,
    hasCheatingFlags |-> FALSE,
    cheatingDetails |-> <<>> ]

\* pre('save') hook
SessionPreSave(s, t) ==
  LET s1 == IF s.isCompleted /\ s.status # COMPLETED
            THEN [s EXCEPT !.status = COMPLETED] ELSE s
      s2 == IF s1.isCompleted /\ ~IsSet(s1.endTime)
            THEN [s1 EXCEPT !.endTime = Some(t)] ELSE s1
  IN  [s2 EXCEPT !.hasCheatingFlags = Len(s2.cheatingDetails) > 0]

\* Pairs <<earned, total>> with 200*earned/total an odd integer (the exact
\* quotient ends in .5) for which the IEEE-754 double (earned / total) * 100
\* falls just below the half, e.g. (23 / 40) * 100 = 57.49999999999999, so
\* that Math.round returns the lower integer.  All such pairs with
\* total <= 500 (50 questions of 10 points).
DoubleBelowHalf ==
  { <<23, 40>>, <<46, 80>>, <<69, 120>>, <<92, 160>>, <<29, 200>>, <<57, 200>>,
    <<113, 200>>, <<115, 200>>, <<138, 240>>, <<161, 280>>, <<184, 320>>,
    <<207, 360>>, <<58, 400>>, <<114, 400>>, <<226, 400>>, <<230, 400>>,
    <<253, 440>>, <<276, 480>> }

\* Math.round((earnedPoints / totalPoints) * 100)
RoundPercent(earnedPoints, totalPoints) ==
  LET halfUp == (200 * earnedPoints + totalPoints) \div (2 * totalPoints)
  IN  IF <<earnedPoints, totalPoints>> \in DoubleBelowHalf THEN halfUp - 1 ELSE halfUp

\* questions.reduce((sum, q) => sum + q.points, 0)
RECURSIVE SumPoints(_)
SumPoints(questions) ==
  IF questions = <<>> THEN 0 ELSE Head(questions).points + SumPoints(Tail(questions))

\* answers.reduce((sum, a) => sum + a.pointsEarned, 0)
RECURSIVE SumEarned(_)
SumEarned(answers) ==
  IF answers = <<>> THEN 0 ELSE Head(answers).pointsEarned + SumEarned(Tail(answers))

IsCorrectAnswer(a) == a.isCorrect

calculateScore(s) ==
  IF Len(s.answers) = 0
  THEN [score |-> 0, percentage |-> 0, correctAnswers |-> 0]
  ELSE LET totalPoints == SumPoints(s.questions)
           earnedPoints == SumEarned(s.answers)
       IN  [ score |-> earnedPoints,
             percentage |-> IF totalPoints > 0
                            THEN RoundPercent(earnedPoints, totalPoints) ELSE 0,
             correctAnswers |-> Len(SelectSeq(s.answers, IsCorrectAnswer)) ]

stepLevelMap ==
  [ st \in AssessmentStep |->
      CASE st = 1 -> [low |-> "A1", high |-> "A2"]
        [] st = 2 -> [low |-> "B1", high |-> "B2"]
        [] st = 3 -> [low |-> "C1", high |-> "C2"] ]

\* determineLevel with the upper band opening above 50 instead of at 50
determineLevel_StrictHigh(s) ==
  LET percentage == calculateScore(s).percentage
  IN  IF percentage < PassThreshold THEN "none"
      ELSE IF s.step \notin DOMAIN stepLevelMap THEN "none"
      ELSE IF percentage > HighLevelThreshold
           THEN stepLevelMap[s.step].high ELSE stepLevelMap[s.step].low

determineLevel(s) ==
  LET percentage == calculateScore(s).percentage
  IN  IF percentage < PassThreshold THEN "none"
      ELSE IF s.step \notin DOMAIN stepLevelMap THEN "none"
      ELSE IF percentage >= HighLevelThreshold
           THEN stepLevelMap[s.step].high ELSE stepLevelMap[s.step].low

\* canProceedToNext without the final-step test
canProceedToNext_NoFinalStep(s) ==
  calculateScore(s).percentage >= AdvanceThreshold

canProceedToNext(s) ==
  calculateScore(s).percentage >= AdvanceThreshold /\ s.step < FinalStep

\* addCheatingFlag that puts the new flag in front of the earlier ones
addCheatingFlag_Unshift(s, type, details, severity, t) ==
  [s EXCEPT !.cheatingDetails =
                <<[type |-> type, details |-> details,
                   timestamp |-> t, severity |-> severity]>> \o @,
            !.hasCheatingFlags = TRUE]

\* addCheatingFlag that leaves hasCheatingFlags to the next save
addCheatingFlag_PushOnly(s, type, details, severity, t) ==
  [s EXCEPT !.cheatingDetails =
                Append(@, [type |-> type, details |-> details,
                           timestamp |-> t, severity |-> severity])]

addCheatingFlag(s, type, details, severity, t) ==
  [s EXCEPT !.cheatingDetails =
                Append(@, [type |-> type, details |-> details,
                           timestamp |-> t, severity |-> severity]),
            !.hasCheatingFlags = TRUE]

OptIsCorrect(opt) == opt.isCorrect

checkAnswerCorrectness(question, selectedAnswers) ==
  IF question.questionType = MULTIPLE_CHOICE
  THEN LET flagged == SelectSeq(question.options, OptIsCorrect)
           correctOptions == [i \in 1..Len(flagged) |-> flagged[i].id]
           sortedCorrect == Sort(correctOptions)
           sortedSelected == Sort(selectedAnswers)
       IN  /\ Len(sortedCorrect) = Len(sortedSelected)
           /\ \A i \in 1..Len(sortedCorrect) : sortedCorrect[i] = sortedSelected[i]
  ELSE FALSE

\* recordAnswer that sets the status to in_progress whatever it was
recordAnswer_AlwaysInProgress(s, question, selectedAnswers, timeSpent, t) ==
  LET existingAnswerIndex == IndexOfId(s.answers, question.questionId)
      isCorrect == checkAnswerCorrectness(question, selectedAnswers)
      answerData ==
        [ questionId |-> question.questionId,
          selectedAnswers |-> selectedAnswers,
          timeSpent |-> timeSpent,
          isCorrect |-> isCorrect,
          pointsEarned |-> IF isCorrect THEN question.points ELSE 0,
          answeredAt |-> t,
          changedAnswers |->
            IF existingAnswerIndex > 0
            THEN s.answers[existingAnswerIndex].changedAnswers + 1 ELSE 0,
          tabSwitches |-> 0,
          copyPasteDetected |-> FALSE ]
      s1 == IF existingAnswerIndex > 0
            THEN [s EXCEPT !.answers[existingAnswerIndex] = answerData]
            ELSE [s EXCEPT !.answers = Append(@, answerData)]
  IN  [s1 EXCEPT !.status = IN_PROGRESS]

\* submitAnswer past the question lookup: the answer is built and recorded
recordAnswer(s, question, selectedAnswers, timeSpent, t) ==
  LET existingAnswerIndex == IndexOfId(s.answers, question.questionId)
      isCorrect == checkAnswerCorrectness(question, selectedAnswers)
      pointsEarned == IF isCorrect THEN question.points ELSE 0
      answerData ==
        [ questionId |-> question.questionId,
          selectedAnswers |-> selectedAnswers,
          timeSpent |-> timeSpent,
          isCorrect |-> isCorrect,
          pointsEarned |-> pointsEarned,
          answeredAt |-> t,
          changedAnswers |->
            IF existingAnswerIndex > 0
            THEN s.answers[existingAnswerIndex].changedAnswers + 1 ELSE 0,
          tabSwitches |-> 0,
          copyPasteDetected |-> FALSE ]
      s1 == IF existingAnswerIndex > 0
            THEN [s EXCEPT !.answers[existingAnswerIndex] = answerData]
            ELSE [s EXCEPT !.answers = Append(@, answerData)]
  IN  IF s1.status = NOT_STARTED THEN [s1 EXCEPT !.status = IN_PROGRESS] ELSE s1

\* submitAnswer that appends the answer also when the question has one
submitAnswer_AlwaysPush(s, questionId, selectedAnswers, timeSpent, t) ==
  LET qi == IndexOfId(s.questions, questionId)
      existingAnswerIndex == IndexOfId(s.answers, questionId)
      recorded == recordAnswer(s, s.questions[qi], selectedAnswers, timeSpent, t)
  IN  IF qi = 0
      THEN [doc |-> s, error |-> "Question not found in session"]
      ELSE IF existingAnswerIndex > 0
           THEN [doc |-> [s EXCEPT !.answers =
                                     Append(@, recorded.answers[existingAnswerIndex])],
                 error |-> "none"]
           ELSE [doc |-> recorded, error |-> "none"]

\* submitAnswer that moves the status before it looks the question up
submitAnswer_StatusFirst(s, questionId, selectedAnswers, timeSpent, t) ==
  LET qi == IndexOfId(s.questions, questionId)
      started == IF s.status = NOT_STARTED THEN [s EXCEPT !.status = IN_PROGRESS] ELSE s
  IN  IF qi = 0
      THEN [doc |-> started, error |-> "Question not found in session"]
      ELSE [doc |-> recordAnswer(s, s.questions[qi], selectedAnswers, timeSpent, t),
            error |-> "none"]

\* submitAnswer: the document after the call and the error thrown ("none"
\* when the call returned)
submitAnswer(s, questionId, selectedAnswers, timeSpent, t) ==
  LET qi == IndexOfId(s.questions, questionId)
  IN  IF qi = 0
      THEN [doc |-> s, error |-> "Question not found in session"]
      ELSE [doc |-> recordAnswer(s, s.questions[qi], selectedAnswers, timeSpent, t),
            error |-> "none"]

\* getRemainingTime that rounds the elapsed time up to the next whole second
getRemainingTime_CeilSeconds(s, t) ==
  IF s.isCompleted THEN 0
  ELSE LET elapsedMs == t - s.startTime
           elapsedSeconds == (elapsedMs + 999) \div 1000
           remaining == s.timeAllowed - elapsedSeconds
       IN  IF remaining > 0 THEN remaining ELSE 0

\* getRemainingTime, in seconds
getRemainingTime(s, t) ==
  IF s.isCompleted THEN 0
  ELSE LET elapsedMs == t - s.startTime
           elapsedSeconds == elapsedMs \div 1000
           remaining == s.timeAllowed - elapsedSeconds
       IN  IF remaining > 0 THEN remaining ELSE 0

isExpired(s, t) == getRemainingTime(s, t) = 0 /\ ~s.isCompleted

\* a completion whose pass mark is the high band, not the pass threshold
completeSession_PassedAtHalf(s, t) ==
  LET results == calculateScore(s)
      s1 == [s EXCEPT !.score = Some(results.score),
                      !.percentage = Some(results.percentage),
                      !.levelAchieved = determineLevel(s),
                      !.passed = results.percentage >= HighLevelThreshold,
                      !.canProceedToNextStep = canProceedToNext(s),
                      !.isCompleted = TRUE,
                      !.isSubmitted = TRUE,
                      !.endTime = Some(t),
                      !.status = COMPLETED]
      s2 == IF s1.canProceedToNextStep
            THEN [s1 EXCEPT !.nextStepUnlockedAt = Some(t)] ELSE s1
  IN  SessionPreSave(s2, t)

\* markCompleted past its guard: the results are computed, stored and saved
completeSession(s, t) ==
  LET results == calculateScore(s)
      achievedLevel == determineLevel(s)
      s1 == [s EXCEPT !.score = Some(results.score),
                      !.percentage = Some(results.percentage),
                      !.levelAchieved = achievedLevel,
                      !.passed = results.percentage >= PassThreshold,
                      !.canProceedToNextStep = canProceedToNext(s),
                      !.isCompleted = TRUE,
                      !.isSubmitted = TRUE,
                      !.endTime = Some(t),
                      !.status = COMPLETED]
      s2 == IF s1.canProceedToNextStep
            THEN [s1 EXCEPT !.nextStepUnlockedAt = Some(t)] ELSE s1
  IN  SessionPreSave(s2, t)

\* markCompleted that raises isCompleted and isSubmitted only: status and
\* endTime are not assigned and the document is not saved
markCompleted_FlagsOnly(s, t) ==
  IF s.isCompleted THEN s
  ELSE [s EXCEPT !.isCompleted = TRUE, !.isSubmitted = TRUE]

\* markCompleted without the early return on a completed session
markCompleted_NoGuard(s, t) == completeSession(s, t)

markCompleted(s, t) ==
  IF s.isCompleted THEN s ELSE completeSession(s, t)

-----------------------------------------------------------------------------
(* AssessmentProgress *)

levelOrder == <<"A1", "A2", "B1", "B2", "C1", "C2">>

\* levelOrder.indexOf(level), 1-based
LevelIndex(level) == CHOOSE i \in 1..Len(levelOrder) : levelOrder[i] = level

NewProgress ==
  [ currentStep |-> 1,
    highestLevelAchieved |-> "A1",
    step1Completed |-> FALSE, step1Score |-> Undefined,
    step1Level |-> "none", step1CompletedAt |-> Undefined,
    step2Completed |-> FALSE, step2Score |-> Undefined,
    step2Level |-> "none", step2CompletedAt |-> Undefined,
    step3Completed |-> FALSE, step3Score |-> Undefined,
    step3Level |-> "none", step3CompletedAt |-> Undefined,
    totalAssessmentsTaken |-> 0,
    totalTimeSpent |-> 0,
    averageScore |-> 0,
    competencyScores |-> <<>>,
    canRetakeStep1 |-> TRUE,
    nextAssessmentDate |-> Undefined,
    achievements |-> <<>> ]

RECURSIVE SumScores(_)
SumScores(scores) ==
  IF scores = <<>> THEN 0 ELSE Val(Head(scores)) + SumScores(Tail(scores))

\* pre-save hook that leaves currentStep at 2 when step 2 is completed
ProgressPreSave_StepTwoStays(p) ==
  LET currentStep == IF p.step3Completed THEN 3
                     ELSE IF p.step2Completed THEN 2
                     ELSE IF p.step1Completed THEN 2
                     ELSE 1
      IsLevel(l) == l # "none"
      levels == SelectSeq(<<p.step1Level, p.step2Level, p.step3Level>>, IsLevel)
      highestIndex ==
        CHOOSE i \in {LevelIndex(levels[k]) : k \in 1..Len(levels)} :
          \A k \in 1..Len(levels) : LevelIndex(levels[k]) <= i
      scores == SelectSeq(<<p.step1Score, p.step2Score, p.step3Score>>, IsSet)
      sum == SumScores(scores)
      p1 == [p EXCEPT !.currentStep = currentStep]
      p2 == IF Len(levels) > 0
            THEN [p1 EXCEPT !.highestLevelAchieved = levelOrder[highestIndex]]
            ELSE p1
  IN  IF Len(scores) > 0
      THEN [p2 EXCEPT !.averageScore =
                         (2 * sum + Len(scores)) \div (2 * Len(scores))]
      ELSE p2

\* pre-save hook that averages over the three steps, an unset score
\* counting as zero
ProgressPreSave_MeanOfThree(p) ==
  LET currentStep == IF p.step3Completed THEN 3
                     ELSE IF p.step2Completed THEN 3
                     ELSE IF p.step1Completed THEN 2
                     ELSE 1
      IsLevel(l) == l # "none"
      levels == SelectSeq(<<p.step1Level, p.step2Level, p.step3Level>>, IsLevel)
      highestIndex ==
        CHOOSE i \in {LevelIndex(levels[k]) : k \in 1..Len(levels)} :
          \A k \in 1..Len(levels) : LevelIndex(levels[k]) <= i
      scores == SelectSeq(<<p.step1Score, p.step2Score, p.step3Score>>, IsSet)
      sum == SumScores(scores)
      p1 == [p EXCEPT !.currentStep = currentStep]
      p2 == IF Len(levels) > 0
            THEN [p1 EXCEPT !.highestLevelAchieved = levelOrder[highestIndex]]
            ELSE p1
  IN  IF Len(scores) > 0
      THEN [p2 EXCEPT !.averageScore =
                         (2 * sum + 3) \div (2 * 3)]
      ELSE p2

\* pre('save') hook
ProgressPreSave(p) ==
  LET currentStep == IF p.step3Completed THEN 3
                     ELSE IF p.step2Completed THEN 3
                     ELSE IF p.step1Completed THEN 2
                     ELSE 1
      IsLevel(l) == l # "none"
      levels == SelectSeq(<<p.step1Level, p.step2Level, p.step3Level>>, IsLevel)
      highestIndex ==
        CHOOSE i \in {LevelIndex(levels[k]) : k \in 1..Len(levels)} :
          \A k \in 1..Len(levels) : LevelIndex(levels[k]) <= i
      scores == SelectSeq(<<p.step1Score, p.step2Score, p.step3Score>>, IsSet)
      sum == SumScores(scores)
      p1 == [p EXCEPT !.currentStep = currentStep]
      p2 == IF Len(levels) > 0
            THEN [p1 EXCEPT !.highestLevelAchieved = levelOrder[highestIndex]]
            ELSE p1
  IN  IF Len(scores) > 0
      THEN [p2 EXCEPT !.averageScore =
                         (2 * sum + Len(scores)) \div (2 * Len(scores))]
      ELSE p2

\* updateStepProgress whose cases fall through: a step also marks the steps
\* after it
updateStepProgress_FallThrough(p, step, score, level, t) ==
  LET p1 == IF step = 1
            THEN [p EXCEPT !.step1Completed = TRUE,
                           !.step1Score = Some(score),
                           !.step1Level = level,
                           !.step1CompletedAt = Some(t),
                           !.canRetakeStep1 = IF score < PassThreshold THEN FALSE ELSE @]
            ELSE p
      p2 == IF step \in {1, 2}
            THEN [p1 EXCEPT !.step2Completed = TRUE,
                            !.step2Score = Some(score),
                            !.step2Level = level,
                            !.step2CompletedAt = Some(t)]
            ELSE p1
      p3 == IF step \in {1, 2, 3}
            THEN [p2 EXCEPT !.step3Completed = TRUE,
                            !.step3Score = Some(score),
                            !.step3Level = level,
                            !.step3CompletedAt = Some(t)]
            ELSE p2
  IN  ProgressPreSave([p3 EXCEPT !.totalAssessmentsTaken = @ + 1])

\* updateStepProgress whose step-1 case sets canRetakeStep1 to whether the
\* attempt passed
updateStepProgress_RetakeFollowsScore(p, step, score, level, t) ==
  LET p1 ==
        CASE step = 1 ->
               [p EXCEPT !.step1Completed = TRUE,
                         !.step1Score = Some(score),
                         !.step1Level = level,
                         !.step1CompletedAt = Some(t),
                         !.canRetakeStep1 = (score >= PassThreshold)]
          [] step = 2 ->
               [p EXCEPT !.step2Completed = TRUE,
                         !.step2Score = Some(score),
                         !.step2Level = level,
                         !.step2CompletedAt = Some(t)]
          [] step = 3 ->
               [p EXCEPT !.step3Completed = TRUE,
                         !.step3Score = Some(score),
                         !.step3Level = level,
                         !.step3CompletedAt = Some(t)]
          [] OTHER -> p
  IN  ProgressPreSave([p1 EXCEPT !.totalAssessmentsTaken = @ + 1])

\* updateStepProgress that keeps the best score a step ever had
updateStepProgress_KeepBest(p, step, score, level, t) ==
  LET best(old) == IF IsSet(old) /\ Val(old) > score THEN old ELSE Some(score)
      p1 ==
        CASE step = 1 ->
               [p EXCEPT !.step1Completed = TRUE,
                         !.step1Score = best(@),
                         !.step1Level = level,
                         !.step1CompletedAt = Some(t),
                         !.canRetakeStep1 = IF score < PassThreshold THEN FALSE ELSE @]
          [] step = 2 ->
               [p EXCEPT !.step2Completed = TRUE,
                         !.step2Score = best(@),
                         !.step2Level = level,
                         !.step2CompletedAt = Some(t)]
          [] step = 3 ->
               [p EXCEPT !.step3Completed = TRUE,
                         !.step3Score = best(@),
                         !.step3Level = level,
                         !.step3CompletedAt = Some(t)]
          [] OTHER -> p
  IN  ProgressPreSave([p1 EXCEPT !.totalAssessmentsTaken = @ + 1])

updateStepProgress(p, step, score, level, t) ==
  LET p1 ==
        CASE step = 1 ->
               [p EXCEPT !.step1Completed = TRUE,
                         !.step1Score = Some(score),
                         !.step1Level = level,
                         !.step1CompletedAt = Some(t),
                         !.canRetakeStep1 = IF score < PassThreshold THEN FALSE ELSE @]
          [] step = 2 ->
               [p EXCEPT !.step2Completed = TRUE,
                         !.step2Score = Some(score),
                         !.step2Level = level,
                         !.step2CompletedAt = Some(t)]
          [] step = 3 ->
               [p EXCEPT !.step3Completed = TRUE,
                         !.step3Score = Some(score),
                         !.step3Level = level,
                         !.step3CompletedAt = Some(t)]
          [] OTHER -> p
  IN  ProgressPreSave([p1 EXCEPT !.totalAssessmentsTaken = @ + 1])

\* competencyScores.findIndex(cs => cs.competency === competency), 1-based;
\* 0 when no entry matches (JS: -1)
IndexOfCompetency(seq, competency) ==
  IF \E i \in 1..Len(seq) : seq[i].competency = competency
  THEN CHOOSE i \in 1..Len(seq) :
         /\ seq[i].competency = competency
         /\ \A j \in 1..(i - 1) : seq[j].competency # competency
  ELSE 0

\* updateCompetencyScore that stores the latest score over the earlier one
updateCompetencyScore_LatestScore(p, competency, score, level, questionsAttempted, correctAnswers, t) ==
  LET existingIndex == IndexOfCompetency(p.competencyScores, competency)
      existing == p.competencyScores[existingIndex]
  IN  ProgressPreSave(
        IF existingIndex > 0
        THEN [p EXCEPT !.competencyScores[existingIndex] =
                [existing EXCEPT
                   !.score = score,
                   !.level = level,
                   !.questionsAttempted = @ + questionsAttempted,
                   !.correctAnswers = @ + correctAnswers,
                   !.lastUpdated = t]]
        ELSE [p EXCEPT !.competencyScores =
                Append(@, [competency |-> competency, score |-> score,
                           level |-> level,
                           questionsAttempted |-> questionsAttempted,
                           correctAnswers |-> correctAnswers,
                           lastUpdated |-> t])])

updateCompetencyScore(p, competency, score, level, questionsAttempted, correctAnswers, t) ==
  LET existingIndex == IndexOfCompetency(p.competencyScores, competency)
      existing == p.competencyScores[existingIndex]
  IN  ProgressPreSave(
        IF existingIndex > 0
        THEN [p EXCEPT !.competencyScores[existingIndex] =
                [existing EXCEPT
                   !.score = IF existing.score >= score THEN existing.score ELSE score,
                   !.level = level,
                   !.questionsAttempted = @ + questionsAttempted,
                   !.correctAnswers = @ + correctAnswers,
                   !.lastUpdated = t]]
        ELSE [p EXCEPT !.competencyScores =
                Append(@, [competency |-> competency, score |-> score,
                           level |-> level,
                           questionsAttempted |-> questionsAttempted,
                           correctAnswers |-> correctAnswers,
                           lastUpdated |-> t])])

\* addAchievement without the lookup of the id
addAchievement_AlwaysPush(p, achievement) ==
  ProgressPreSave([p EXCEPT !.achievements = Append(@, achievement)])

addAchievement(p, achievement) ==
  IF \E i \in 1..Len(p.achievements) : p.achievements[i].id = achievement.id
  THEN p
  ELSE ProgressPreSave([p EXCEPT !.achievements = Append(@, achievement)])

\* (score || 0)
ScoreOrZero(score) == IF IsSet(score) /\ Val(score) # 0 THEN Val(score) ELSE 0

\* canTakeStep with steps 2 and 3 opening above 75 instead of at 75
canTakeStep_Above(p, step) ==
  CASE step = 1 -> p.canRetakeStep1 \/ ~p.step1Completed
    [] step = 2 -> p.step1Completed /\ ScoreOrZero(p.step1Score) > AdvanceThreshold
    [] step = 3 -> p.step2Completed /\ ScoreOrZero(p.step2Score) > AdvanceThreshold
    [] OTHER -> FALSE

canTakeStep(p, step) ==
  CASE step = 1 -> p.canRetakeStep1 \/ ~p.step1Completed
    [] step = 2 -> p.step1Completed /\ ScoreOrZero(p.step1Score) >= AdvanceThreshold
    [] step = 3 -> p.step2Completed /\ ScoreOrZero(p.step2Score) >= AdvanceThreshold
    [] OTHER -> FALSE

\* getNextAvailableStep that tries step 3 first and step 1 last
getNextAvailableStep_HighestFirst(p) ==
  IF canTakeStep(p, 3) THEN Some(3)
  ELSE IF canTakeStep(p, 2) THEN Some(2)
  ELSE IF canTakeStep(p, 1) THEN Some(1)
  ELSE Undefined

\* getNextAvailableStep: the step, or Undefined for null
getNextAvailableStep(p) ==
  IF canTakeStep(p, 1) THEN Some(1)
  ELSE IF canTakeStep(p, 2) THEN Some(2)
  ELSE IF canTakeStep(p, 3) THEN Some(3)
  ELSE Undefined

-----------------------------------------------------------------------------
(* Question documents of the bank (Question model) *)

\* a Question document as the schema stores it; `updatedAt' is the
\* timestamp mongoose maintains
NewQuestion(id, step, level, difficulty, timesAnswered, points, options) ==
  [ id |-> id,
    step |-> step,
    level |-> level,
    questionType |-> MULTIPLE_CHOICE,
    options |-> options,
    correctAnswers |-> LET flagged == SelectSeq(options, OptIsCorrect)
                       IN  [i \in 1..Len(flagged) |-> flagged[i].id],
    difficulty |-> difficulty,
    points |-> points,
    isActive |-> TRUE,
    timesAnswered |-> timesAnswered,
    correctAnswerRate |-> 0,
    updatedAt |-> 0 ]

\* the step / level check of the Question pre-save hook
QuestionPreSaveAccepts(q) ==
  q.level \in {stepLevelMap[q.step].low, stepLevelMap[q.step].high}

\* incrementStats(isCorrect), saved at t
incrementStats(q, isCorrect, t) ==
  LET timesAnswered == q.timesAnswered + 1
      previousCorrect == (2 * q.correctAnswerRate * (timesAnswered - 1) + 100) \div 200
      newCorrect == previousCorrect + (IF isCorrect THEN 1 ELSE 0)
  IN  [q EXCEPT !.timesAnswered = timesAnswered,
                !.correctAnswerRate =
                   IF timesAnswered = 1
                   THEN (IF isCorrect THEN 100 ELSE 0)
                   ELSE RoundPercent(newCorrect, timesAnswered),
                !.updatedAt = t]

\* the query's default limit
DefaultLimit == 44

\* how the database orders documents whose sort keys are equal: the query
\* names no further key, so the order among them is the database's choice;
\* the stored order and its reverse stand for the outcomes
TieOrders == {"stored", "reverse"}

\* the sort { difficulty: 1, timesAnswered: 1 }
SortsBefore(p, q) ==
  \/ p.difficulty < q.difficulty
  \/ p.difficulty = q.difficulty /\ p.timesAnswered < q.timesAnswered

\* a selector that cuts the bank to the limit before it sorts
getQuestionsForStep_LimitFirst(b, step, limit, excludeIds, tieOrder) ==
  LET excluded == {excludeIds[k] : k \in 1..Len(excludeIds)}
      found == {i \in 1..Len(b) :
                  /\ b[i].step = step
                  /\ b[i].level \in {stepLevelMap[step].low, stepLevelMap[step].high}
                  /\ b[i].isActive
                  /\ b[i].id \notin excluded}
      kept == {i \in found : Cardinality({j \in found : j < i}) < limit}
      rank == [i \in kept |->
                 Cardinality({j \in kept :
                    \/ SortsBefore(b[j], b[i])
                    \/ /\ ~SortsBefore(b[i], b[j])
                       /\ IF tieOrder = "stored" THEN j < i ELSE j > i}) + 1]
  IN  [k \in 1..Cardinality(kept) |-> b[CHOOSE i \in kept : rank[i] = k]]

\* Question.getQuestionsForStep(step, limit, excludeIds): find(query),
\* sorted, cut to the limit
getQuestionsForStep(b, step, limit, excludeIds, tieOrder) ==
  LET excluded == {excludeIds[k] : k \in 1..Len(excludeIds)}
      found == {i \in 1..Len(b) :
                  /\ b[i].step = step
                  /\ b[i].level \in {stepLevelMap[step].low, stepLevelMap[step].high}
                  /\ b[i].isActive
                  /\ b[i].id \notin excluded}
      rank == [i \in found |->
                 Cardinality({j \in found :
                    \/ SortsBefore(b[j], b[i])
                    \/ /\ ~SortsBefore(b[i], b[j])
                       /\ IF tieOrder = "stored" THEN j < i ELSE j > i}) + 1]
      count == IF Cardinality(found) < limit THEN Cardinality(found) ELSE limit
  IN  [k \in 1..count |-> b[CHOOSE i \in found : rank[i] = k]]

\* no query made yet
NoSelection == [step |-> 0, excludeIds |-> <<>>, result |-> <<>>]

-----------------------------------------------------------------------------
(* User documents (User model) *)

\* a registered, active user with the schema defaults
NewUser ==
  [ password |-> "secret",
    isActive |-> TRUE,
    loginAttempts |-> 0,
    lockUntil |-> Undefined,
    lastLogin |-> Undefined,
    otp |-> Undefined ]

\* config defaults: minutes an OTP lives, failed logins that lock the
\* account, minutes the lock lasts
OTP_EXPIRE_TIME == 10
MAX_LOGIN_ATTEMPTS == 5
LOCKOUT_DURATION == 30

\* verifyOTP's limit of attempts on one OTP
MaxOTPAttempts == 5

\* generateOTP(), with the six digits it drew
generateOTP(u, code, t) ==
  [u EXCEPT !.otp = Some([ code |-> code,
                           expiresAt |-> t + OTP_EXPIRE_TIME * 60 * 1000,
                           attempts |-> 0,
                           isUsed |-> FALSE ])]

\* verifyOTP(candidateOTP): the document it leaves and what it returns
verifyOTP(u, candidateOTP, t) ==
  IF ~IsSet(u.otp) \/ Val(u.otp).isUsed \/ Val(u.otp).expiresAt < t
  THEN [doc |-> u, ok |-> FALSE]
  ELSE LET counted == [Val(u.otp) EXCEPT !.attempts = @ + 1]
       IN  IF counted.attempts > MaxOTPAttempts
           THEN [doc |-> [u EXCEPT !.otp = Some([counted EXCEPT !.isUsed = TRUE])],
                 ok |-> FALSE]
           ELSE IF counted.code = candidateOTP
                THEN [doc |-> [u EXCEPT !.otp = Some([counted EXCEPT !.isUsed = TRUE])],
                      ok |-> TRUE]
                ELSE [doc |-> [u EXCEPT !.otp = Some(counted)], ok |-> FALSE]

clearOTP(u) == [u EXCEPT !.otp = Undefined]

isAccountLocked(u, t) == IsSet(u.lockUntil) /\ Val(u.lockUntil) > t

\* incLoginAttempts() called on the loaded document u at t: the stored
\* document after its updateOne
incLoginAttempts(stored, u, t) ==
  IF IsSet(u.lockUntil) /\ Val(u.lockUntil) < t
  THEN [stored EXCEPT !.lockUntil = Undefined, !.loginAttempts = 1]
  ELSE LET counted == [stored EXCEPT !.loginAttempts = @ + 1]
       IN  IF u.loginAttempts + 1 >= MAX_LOGIN_ATTEMPTS /\ ~isAccountLocked(u, t)
           THEN [counted EXCEPT !.lockUntil = Some(t + LOCKOUT_DURATION * 60 * 1000)]
           ELSE counted

\* resetLoginAttempts(): the stored document after its updateOne; the unset
\* counter reads as its default
resetLoginAttempts(stored) ==
  [stored EXCEPT !.loginAttempts = 0, !.lockUntil = Undefined]

-----------------------------------------------------------------------------
(* The rate limiter in front of the routes (sensitiveOperationLimit) *)

\* the client addresses requests come from
Addresses == {"ip1", "ip2"}

Routes == {"login", "send-otp", "verify-otp"}

\* the limits the routes are registered with, and their window in ms
RouteLimit == [route \in Routes |-> IF route = "send-otp" THEN 3 ELSE 5]
RateWindow == 15 * 60 * 1000

\* no entry in the limiter's map
NoEntry == [count |-> 0, resetTime |-> 0]

NoAttempts == [route \in Routes |-> [ip \in Addresses |-> NoEntry]]

\* one pass through the middleware for an identifier: the entry it leaves
\* and whether the request goes on to the controller
sensitiveOperationLimit(entry, maxAttempts, windowMs, t) ==
  LET current == IF entry # NoEntry /\ t > entry.resetTime THEN NoEntry ELSE entry
  IN  IF current # NoEntry /\ current.count >= maxAttempts
      THEN [entry |-> current, next |-> FALSE]
      ELSE IF current # NoEntry
           THEN [entry |-> [current EXCEPT !.count = @ + 1], next |-> TRUE]
           ELSE [entry |-> [count |-> 1, resetTime |-> t + windowMs], next |-> TRUE]

\* nothing answered yet
NoAuthLog ==
  [last |-> [op |-> "none", status |-> 0], wrong |-> 0, accepted |-> 0]

-----------------------------------------------------------------------------
(* Operations *)

FlagTypes == {"tab_switch"}
Severities == {"medium"}

NoSubmit == [questionId |-> "", selectedAnswers |-> <<>>, error |-> "none"]

\* an updateStepProgress(step, score, level) call
StepCall(step, score, level) ==
  [op |-> "updateStepProgress", step |-> step, score |-> score, level |-> level]

\* no timer read yet
NoRead == [at |-> -1, remaining |-> 0, expired |-> FALSE]

Init ==
  /\ bank = <<>>
  /\ selected = NoSelection
  /\ user = NewUser
  /\ authLog = NoAuthLog
  /\ attempts = NoAttempts
  /\ \E step \in AssessmentStep, questions \in Snapshots :
       session = NewSession(step, questions)
  /\ progress = NewProgress
  /\ now = 0
  /\ lastSubmit = NoSubmit
  /\ submits = 0
  /\ completions = 0
  /\ timerRead = NoRead
  /\ flags = 0
  /\ progressCalls = <<>>
  /\ reqs = <<>>

SubmitAnswer ==
  /\ submits < MaxSubmits
  /\ \E questionId \in QuestionIds, selectedAnswers \in Selections,
        timeSpent \in TimesSpent :
       LET r == submitAnswer(session, questionId, selectedAnswers, timeSpent, now)
       IN  /\ session' = r.doc
           /\ lastSubmit' = [questionId |-> questionId,
                             selectedAnswers |-> selectedAnswers,
                             error |-> r.error]
  /\ submits' = submits + 1
  /\ UNCHANGED <<progressCalls, reqs, flags, timerRead, progress, now, completions, bank, selected, user, authLog, attempts>>

MarkCompleted ==
  /\ completions < MaxCompletions
  /\ session' = markCompleted(session, now)
  /\ completions' = completions + 1
  /\ UNCHANGED <<progressCalls, reqs, flags, timerRead, progress, now, lastSubmit, submits, bank, selected, user, authLog, attempts>>

AddCheatingFlag ==
  /\ flags < MaxFlags
  /\ \E type \in FlagTypes, severity \in Severities :
       session' = addCheatingFlag(session, type, "details", severity, now)
  /\ flags' = flags + 1
  /\ UNCHANGED <<progressCalls, reqs, timerRead, progress, now, lastSubmit, submits, completions, bank, selected, user, authLog, attempts>>

\* document.save() by the caller of submitAnswer / addCheatingFlag
Save ==
  /\ session' = SessionPreSave(session, now)
  /\ UNCHANGED <<progressCalls, reqs, flags, timerRead, progress, now, lastSubmit, submits, completions, bank, selected, user, authLog, attempts>>

\* the wall clock advances
Tick ==
  /\ \E t \in TimePoints : t > now /\ now' = t
  /\ UNCHANGED <<progressCalls, reqs, flags, timerRead, session, progress, lastSubmit, submits, completions, bank, selected, user, authLog, attempts>>

\* a caller hands the completed session's outcome to the progress record
ForwardCompletion ==
  /\ session.isCompleted
  /\ progress.totalAssessmentsTaken < MaxTaken
  /\ progress' = updateStepProgress(progress, session.step, Val(session.percentage),
                                    session.levelAchieved, now)
  /\ progressCalls' = Append(progressCalls,
                            StepCall(session.step, Val(session.percentage),
                                     session.levelAchieved))
  /\ UNCHANGED <<reqs, flags, timerRead, session, now, lastSubmit, submits, completions, bank, selected, user, authLog, attempts>>

Next == SubmitAnswer \/ MarkCompleted \/ AddCheatingFlag \/ Save \/ Tick

Spec == Init /\ [][Next]_vars

-----------------------------------------------------------------------------
(* Completion and its hand-over to the progress record *)

NextCompletion == SubmitAnswer \/ MarkCompleted \/ ForwardCompletion

SpecCompletion == Init /\ [][NextCompletion]_vars

-----------------------------------------------------------------------------
(* Scoring scenarios: a session of n one-point multiple-choice questions, of *)
(* which the first k were answered correctly and the others either wrongly   *)
(* or not at all, every answer recorded by submitAnswer.                     *)

ScenarioQuestion(i) ==
  [questionId |-> "s" \o ToString(i), points |-> 1, questionType |-> MULTIPLE_CHOICE,
   options |-> <<Opt("a", TRUE), Opt("b", FALSE)>>]

RECURSIVE AnswerFrom(_, _, _, _)
AnswerFrom(s, i, k, wrongRest) ==
  IF i > Len(s.questions) THEN s
  ELSE IF i <= k
       THEN AnswerFrom(submitAnswer(s, s.questions[i].questionId, <<"a">>, 30, 0).doc,
                       i + 1, k, wrongRest)
  ELSE IF wrongRest
       THEN AnswerFrom(submitAnswer(s, s.questions[i].questionId, <<"b">>, 30, 0).doc,
                       i + 1, k, wrongRest)
  ELSE s

ScenarioSession(step, n, k, wrongRest) ==
  AnswerFrom(NewSession(step, [i \in 1..n |-> ScenarioQuestion(i)]), 1, k, wrongRest)

InitScoring ==
  /\ bank = <<>>
  /\ selected = NoSelection
  /\ user = NewUser
  /\ authLog = NoAuthLog
  /\ attempts = NoAttempts
  /\ \E step \in AssessmentStep, n \in 1..MaxScenarioQuestions :
       \E k \in 0..n, wrongRest \in BOOLEAN :
         session = ScenarioSession(step, n, k, wrongRest)
  /\ progress = NewProgress
  /\ now = 0
  /\ lastSubmit = NoSubmit
  /\ submits = Len(session.answers)
  /\ completions = 0
  /\ timerRead = NoRead
  /\ flags = 0
  /\ progressCalls = <<>>
  /\ reqs = <<>>

NextScoring == MarkCompleted \/ Tick

SpecScoring == InitScoring /\ [][NextScoring]_vars

-----------------------------------------------------------------------------
(* The timer: the clock passes through the instants around a whole second   *)
(* and around the end of the time budget, and a caller reads                *)
(* getRemainingTime() and isExpired().                                      *)

TimerPoints ==
  { 0, 999, 1000,
    (MinTimeAllowed - 1) * 1000, MinTimeAllowed * 1000 - 1,
    MinTimeAllowed * 1000, MinTimeAllowed * 1000 + 1,
    (MinTimeAllowed + 1) * 1000 }

TickTimer ==
  /\ \E t \in TimerPoints : t > now /\ now' = t
  /\ UNCHANGED <<progressCalls, reqs, flags, session, progress, lastSubmit, submits, completions, timerRead, bank, selected, user, authLog, attempts>>

\* getRemainingTime() and isExpired() are called; neither assigns anything
ReadTimer ==
  /\ timerRead' = [at |-> now,
                   remaining |-> getRemainingTime(session, now),
                   expired |-> isExpired(session, now)]
  /\ UNCHANGED <<progressCalls, reqs, flags, session, progress, now, lastSubmit, submits, completions, bank, selected, user, authLog, attempts>>

NextTimer == MarkCompleted \/ AddCheatingFlag \/ TickTimer \/ ReadTimer

SpecTimer == Init /\ [][NextTimer]_vars

\* The timer under the scheduling the program has: the clock keeps advancing
\* and the timer keeps being read.  markCompleted runs only when a caller
\* asks for it, whenever that is: no timer, job or hook of the program calls
\* it, so it carries no fairness.  Past the last instant of TimerPoints the
\* clock's further ticks change nothing the program computes (the remaining
\* time stays 0 and the session stays expired), so they are stuttering steps.
SpecAutoSubmit ==
  Init /\ [][NextTimer]_vars /\ WF_vars(TickTimer) /\ WF_vars(ReadTimer)

-----------------------------------------------------------------------------
(* Cheating flags: a session with answers, loaded either unflagged or with  *)
(* a flag recorded and saved earlier, is flagged, saved and completed.      *)

InitFlags ==
  /\ bank = <<>>
  /\ selected = NoSelection
  /\ user = NewUser
  /\ authLog = NoAuthLog
  /\ attempts = NoAttempts
  /\ \E step \in AssessmentStep, n \in 1..MaxFlaggedQuestions :
       \E k \in 0..n, wrongRest \in BOOLEAN, flaggedEarlier \in BOOLEAN :
         LET s == ScenarioSession(step, n, k, wrongRest)
         IN  session =
               IF flaggedEarlier
               THEN SessionPreSave(
                      addCheatingFlag(s, "copy_paste", "earlier", "high", 0), 0)
               ELSE s
  /\ progress = NewProgress
  /\ now = 0
  /\ lastSubmit = NoSubmit
  /\ submits = Len(session.answers)
  /\ completions = 0
  /\ timerRead = NoRead
  /\ flags = 0
  /\ progressCalls = <<>>
  /\ reqs = <<>>

NextFlags == AddCheatingFlag \/ Save \/ MarkCompleted \/ Tick

SpecFlags == InitFlags /\ [][NextFlags]_vars

-----------------------------------------------------------------------------
(* The progress record: callers report step outcomes in any order.          *)

\* percentages a step outcome carries: the ends of the scale, both sides of
\* the pass and advance thresholds, and 11 (5 of 44 one-point questions)
StepScores ==
  {0, 11, PassThreshold - 1, PassThreshold, AdvanceThreshold - 1, AdvanceThreshold, 100}

\* the level a session of the step reports for the percentage
LevelAt(step, percentage) ==
  IF percentage < PassThreshold THEN "none"
  ELSE IF percentage >= HighLevelThreshold
       THEN stepLevelMap[step].high ELSE stepLevelMap[step].low

InitProgress ==
  /\ bank = <<>>
  /\ selected = NoSelection
  /\ user = NewUser
  /\ authLog = NoAuthLog
  /\ attempts = NoAttempts
  /\ session = NewSession(1, <<Q1, Q2>>)
  /\ progress = NewProgress
  /\ now = 0
  /\ lastSubmit = NoSubmit
  /\ submits = 0
  /\ completions = 0
  /\ timerRead = NoRead
  /\ flags = 0
  /\ progressCalls = <<>>
  /\ reqs = <<>>

UpdateStepProgress ==
  /\ progress.totalAssessmentsTaken < MaxTaken
  /\ Len(progressCalls) < MaxProgressCalls
  /\ \E step \in AssessmentStep, score \in StepScores :
       /\ progress' = updateStepProgress(progress, step, score, LevelAt(step, score), now)
       /\ progressCalls' = Append(progressCalls,
                                 StepCall(step, score, LevelAt(step, score)))
  /\ UNCHANGED <<reqs, session, now, lastSubmit, submits, completions, timerRead, flags, bank, selected, user, authLog, attempts>>

NextProgress == UpdateStepProgress \/ Tick

SpecProgress == InitProgress /\ [][NextProgress]_vars

-----------------------------------------------------------------------------
(* The progress record under all its mutating methods *)

Competencies == {"information_search", "data_management"}

\* per-competency results a caller reports: a weak attempt and a strong one
CompetencyResults ==
  { [score |-> 40, level |-> "A1", questionsAttempted |-> 2, correctAnswers |-> 1],
    [score |-> 80, level |-> "A2", questionsAttempted |-> 1, correctAnswers |-> 1] }

\* achievements a caller awards: two of them carry the same id
Achievements ==
  { [id |-> "first_pass", name |-> "First pass", type |-> "level", unlockedAt |-> 0],
    [id |-> "first_pass", name |-> "Passed again", type |-> "special", unlockedAt |-> 0],
    [id |-> "fast", name |-> "Fast", type |-> "speed", unlockedAt |-> 0] }

\* an updateCompetencyScore(competency, score, level, attempted, correct) call
CompetencyCall(competency, result) ==
  [op |-> "updateCompetencyScore", competency |-> competency, result |-> result]

\* an addAchievement(achievement) call
AchievementCall(achievement) ==
  [op |-> "addAchievement", achievement |-> achievement]

UpdateCompetencyScore ==
  /\ Len(progressCalls) < MaxProgressCalls
  /\ \E competency \in Competencies, r \in CompetencyResults :
       /\ progress' = updateCompetencyScore(progress, competency, r.score, r.level,
                                            r.questionsAttempted, r.correctAnswers, now)
       /\ progressCalls' = Append(progressCalls, CompetencyCall(competency, r))
  /\ UNCHANGED <<session, now, lastSubmit, submits, completions, timerRead, flags, reqs, bank, selected, user, authLog, attempts>>

AddAchievement ==
  /\ Len(progressCalls) < MaxProgressCalls
  /\ \E achievement \in Achievements :
       /\ progress' = addAchievement(progress, achievement)
       /\ progressCalls' = Append(progressCalls, AchievementCall(achievement))
  /\ UNCHANGED <<session, now, lastSubmit, submits, completions, timerRead, flags, reqs, bank, selected, user, authLog, attempts>>

NextProgressOps == UpdateStepProgress \/ UpdateCompetencyScore \/ AddAchievement

SpecProgressOps == InitProgress /\ [][NextProgressOps]_vars

-----------------------------------------------------------------------------
(* One session completion applied to the progress record with the methods   *)
(* the record offers: updateStepProgress, then updateCompetencyScore for    *)
(* the competency result of its breakdown.  Each method ends with its own   *)
(* save(), so `progress' is the persisted record after every step.          *)

ApplyStepUpdate ==
  /\ Len(progressCalls) % 2 = 0
  /\ UpdateStepProgress

ApplyCompetencyUpsert ==
  /\ Len(progressCalls) % 2 = 1
  /\ UpdateCompetencyScore

NextApply == ApplyStepUpdate \/ ApplyCompetencyUpsert

SpecApply == InitProgress /\ [][NextApply]_vars

-----------------------------------------------------------------------------
(* Concurrent requests on one stored session.  Here `session' is the stored *)
(* document; each request of `reqs' loads its own copy (base), mutates it   *)
(* (doc) with submitAnswer or markCompleted and saves it.  save() writes    *)
(* what the request changed in its copy and nothing else: a changed scalar  *)
(* field is set, an element pushed onto an array is pushed onto the stored  *)
(* array, a replaced element is set at its index.  The schema turns on no   *)
(* optimistic concurrency and the methods take no lock.                     *)

\* requests in flight on one document
MaxRequests == 2

Requests == 1..MaxRequests

NewRequest(document) ==
  [pc |-> "start", call |-> [op |-> "none"], base |-> document, doc |-> document]

\* the array a save leaves in the store: elements replaced in the copy are
\* set at their index, elements pushed onto the copy are pushed
SaveArray(stored, base, doc) ==
  [i \in 1..Len(stored) |->
     IF i <= Len(base) /\ i <= Len(doc) /\ doc[i] # base[i] THEN doc[i] ELSE stored[i]]
  \o SubSeq(doc, Len(base) + 1, Len(doc))

\* the document a save leaves in the store
SaveDelta(stored, base, doc) ==
  [f \in DOMAIN stored |->
     IF f \in {"answers", "cheatingDetails", "competencyScores", "achievements"}
     THEN SaveArray(stored[f], base[f], doc[f])
     ELSE IF doc[f] # base[f] THEN doc[f] ELSE stored[f]]

InitSessionRace ==
  /\ bank = <<>>
  /\ selected = NoSelection
  /\ user = NewUser
  /\ authLog = NoAuthLog
  /\ attempts = NoAttempts
  /\ session = NewSession(1, <<Q1, Q2>>)
  /\ progress = NewProgress
  /\ now = 0
  /\ lastSubmit = NoSubmit
  /\ submits = 0
  /\ completions = 0
  /\ timerRead = NoRead
  /\ flags = 0
  /\ progressCalls = <<>>
  /\ reqs = [r \in Requests |-> NewRequest(session)]

\* findById: the request reads the stored session
LoadSession(r) ==
  /\ reqs[r].pc = "start"
  /\ reqs' = [reqs EXCEPT ![r] = [@ EXCEPT !.pc = "loaded",
                                           !.base = session, !.doc = session]]
  /\ UNCHANGED <<session, progress, now, lastSubmit, submits, completions,
                 timerRead, flags, progressCalls, bank, selected, user, authLog, attempts>>

\* the request calls submitAnswer on its copy
RequestSubmitAnswer(r) ==
  /\ reqs[r].pc = "loaded"
  /\ \E questionId \in {"q1", "q2"}, selectedAnswers \in {<<"a">>, <<"a", "b">>} :
       LET res == submitAnswer(reqs[r].doc, questionId, selectedAnswers, 30, now)
       IN  reqs' = [reqs EXCEPT ![r] =
                      [@ EXCEPT !.pc = IF res.error = "none" THEN "mutated" ELSE "failed",
                                !.call = [op |-> "submitAnswer",
                                          questionId |-> questionId,
                                          selectedAnswers |-> selectedAnswers],
                                !.doc = res.doc]]
  /\ UNCHANGED <<session, progress, now, lastSubmit, submits, completions,
                 timerRead, flags, progressCalls, bank, selected, user, authLog, attempts>>

\* the request saves its copy after submitAnswer
RequestSave(r) ==
  /\ reqs[r].pc = "mutated"
  /\ session' = SaveDelta(session, reqs[r].base, SessionPreSave(reqs[r].doc, now))
  /\ reqs' = [reqs EXCEPT ![r] = [@ EXCEPT !.pc = "done"]]
  /\ UNCHANGED <<progress, now, lastSubmit, submits, completions,
                 timerRead, flags, progressCalls, bank, selected, user, authLog, attempts>>

\* the request calls markCompleted on its copy, which saves it unless the
\* copy was completed already
RequestMarkCompleted(r) ==
  /\ reqs[r].pc = "loaded"
  /\ session' = IF reqs[r].doc.isCompleted THEN session
                ELSE SaveDelta(session, reqs[r].base, markCompleted(reqs[r].doc, now))
  /\ reqs' = [reqs EXCEPT ![r] = [@ EXCEPT !.pc = "done",
                                           !.call = [op |-> "markCompleted"],
                                           !.doc = markCompleted(@, now)]]
  /\ UNCHANGED <<progress, now, lastSubmit, submits, completions,
                 timerRead, flags, progressCalls, bank, selected, user, authLog, attempts>>

NextSessionRace ==
  \/ \E r \in Requests : LoadSession(r)
  \/ \E r \in Requests : RequestSubmitAnswer(r)
  \/ \E r \in Requests : RequestSave(r)
  \/ \E r \in Requests : RequestMarkCompleted(r)
  \/ Tick

SpecSessionRace == InitSessionRace /\ [][NextSessionRace]_vars

-----------------------------------------------------------------------------
(* Concurrent completions on one stored progress record.  Here `progress'   *)
(* is the stored record; each request loads its own copy and calls          *)
(* updateStepProgress on it, which saves the copy.                          *)

InitProgressRace ==
  /\ bank = <<>>
  /\ selected = NoSelection
  /\ user = NewUser
  /\ authLog = NoAuthLog
  /\ attempts = NoAttempts
  /\ session = NewSession(1, <<Q1, Q2>>)
  /\ progress = NewProgress
  /\ now = 0
  /\ lastSubmit = NoSubmit
  /\ submits = 0
  /\ completions = 0
  /\ timerRead = NoRead
  /\ flags = 0
  /\ progressCalls = <<>>
  /\ reqs = [r \in Requests |-> NewRequest(progress)]

\* findOne({ userId }): the request reads the stored record
LoadProgress(r) ==
  /\ reqs[r].pc = "start"
  /\ reqs' = [reqs EXCEPT ![r] = [@ EXCEPT !.pc = "loaded",
                                           !.base = progress, !.doc = progress]]
  /\ UNCHANGED <<session, progress, now, lastSubmit, submits, completions,
                 timerRead, flags, progressCalls, bank, selected, user, authLog, attempts>>

\* the request calls updateStepProgress on its copy, which saves it
RequestUpdateStepProgress(r) ==
  /\ reqs[r].pc = "loaded"
  /\ \E step \in AssessmentStep, score \in StepScores :
       LET updated == updateStepProgress(reqs[r].doc, step, score,
                                         LevelAt(step, score), now)
       IN  /\ progress' = SaveDelta(progress, reqs[r].base, updated)
           /\ reqs' = [reqs EXCEPT ![r] =
                         [@ EXCEPT !.pc = "done",
                                   !.call = StepCall(step, score, LevelAt(step, score)),
                                   !.doc = updated]]
  /\ UNCHANGED <<session, now, lastSubmit, submits, completions,
                 timerRead, flags, progressCalls, bank, selected, user, authLog, attempts>>

NextProgressRace ==
  \/ \E r \in Requests : LoadProgress(r)
  \/ \E r \in Requests : RequestUpdateStepProgress(r)

SpecProgressRace == InitProgressRace /\ [][NextProgressRace]_vars

-----------------------------------------------------------------------------
(* The hand-over of a completed session's stored score and level *)

\* a caller hands the completed session's stored score and level to the
\* progress record
ForwardScore ==
  /\ session.isCompleted
  /\ progress.totalAssessmentsTaken < MaxTaken
  /\ progress' = updateStepProgress(progress, session.step, Val(session.score),
                                    session.levelAchieved, now)
  /\ progressCalls' = Append(progressCalls,
                            StepCall(session.step, Val(session.score),
                                     session.levelAchieved))
  /\ UNCHANGED <<reqs, flags, timerRead, session, now, lastSubmit, submits,
                 completions, bank, selected, user, authLog, attempts>>

NextHandOver == SubmitAnswer \/ MarkCompleted \/ ForwardScore

SpecHandOver == Init /\ [][NextHandOver]_vars

-----------------------------------------------------------------------------
(* Persisting a completion.  Here `session' is the stored document;         *)
(* markCompleted works on the loaded document and saves it, and the save    *)
(* runs the schema's validators.                                            *)

\* a session holds 1 to 50 questions
MaxSessionQuestions == 50
\* a bank question is worth 1 to 10 points
MaxQuestionPoints == 10
\* the schema's upper limit of score and of percentage
MaxStoredResult == 100

\* the validators of the result fields: min 0 and max 100 on score and on
\* percentage, 1 to 50 questions
SessionSaveAccepts(s) ==
  /\ Len(s.questions) > 0 /\ Len(s.questions) <= MaxSessionQuestions
  /\ IsSet(s.score) => (Val(s.score) >= 0 /\ Val(s.score) <= MaxStoredResult)
  /\ IsSet(s.percentage) =>
       (Val(s.percentage) >= 0 /\ Val(s.percentage) <= MaxStoredResult)

\* the sizes of snapshot and the points per question of the sessions saved
PersistSizes == {1, 11, MaxSessionQuestions}
PersistPoints == {1, MaxQuestionPoints}

\* a session of n questions of the same number of points, the first k of
\* them answered correctly
PointsSession(step, n, points, k) ==
  AnswerFrom(NewSession(step, [i \in 1..n |->
                                 [ScenarioQuestion(i) EXCEPT !.points = points]]),
             1, k, FALSE)

InitPersist ==
  /\ \E step \in AssessmentStep, n \in PersistSizes, points \in PersistPoints :
       \E k \in 0..n : session = PointsSession(step, n, points, k)
  /\ bank = <<>>
  /\ selected = NoSelection
  /\ user = NewUser
  /\ authLog = NoAuthLog
  /\ attempts = NoAttempts
  /\ progress = NewProgress
  /\ now = 0
  /\ lastSubmit = NoSubmit
  /\ submits = Len(session.answers)
  /\ completions = 0
  /\ timerRead = NoRead
  /\ flags = 0
  /\ progressCalls = <<>>
  /\ reqs = <<>>

\* a request loads the session and calls markCompleted(), whose save either
\* stores the document or is rejected by a validator
MarkCompletedAndSave ==
  /\ completions < MaxCompletions
  /\ LET doc == markCompleted(session, now)
     IN  session' = IF SessionSaveAccepts(doc) THEN doc ELSE session
  /\ completions' = completions + 1
  /\ UNCHANGED <<progress, now, lastSubmit, submits, timerRead, flags,
                 progressCalls, reqs, bank, selected, user, authLog, attempts>>

NextPersist == MarkCompletedAndSave \/ Tick

SpecPersist == InitPersist /\ [][NextPersist]_vars

-----------------------------------------------------------------------------
(* A session over a changing bank.  The session holds the snapshot taken    *)
(* when it was created; the bank documents are edited, deactivated and      *)
(* deleted afterwards.                                                      *)

\* the embedded AssessmentQuestion that stores a bank question's data
SnapshotOf(q) ==
  [questionId |-> q.id, points |-> q.points, questionType |-> q.questionType,
   options |-> q.options]

\* the bank the session was created from
InitialBank ==
  << NewQuestion("q1", 1, "A1", 1, 0, 1, <<Opt("a", TRUE), Opt("b", FALSE)>>),
     NewQuestion("q2", 1, "A2", 2, 0, 2, <<Opt("b", TRUE), Opt("a", TRUE)>>) >>

\* what an editor turns a question into: option b becomes the only correct
\* one and the question is worth three points
EditedVersion(q, t) ==
  LET options == [i \in 1..Len(q.options) |->
                    Opt(q.options[i].id, q.options[i].id = "b")]
      flagged == SelectSeq(options, OptIsCorrect)
  IN  [q EXCEPT !.options = options,
                !.correctAnswers = [i \in 1..Len(flagged) |-> flagged[i].id],
                !.points = 3,
                !.updatedAt = t]

InitSnapshot ==
  /\ bank = InitialBank
  /\ session = NewSession(1, [i \in 1..Len(InitialBank) |-> SnapshotOf(InitialBank[i])])
  /\ selected = NoSelection
  /\ user = NewUser
  /\ authLog = NoAuthLog
  /\ attempts = NoAttempts
  /\ progress = NewProgress
  /\ now = 0
  /\ lastSubmit = NoSubmit
  /\ submits = 0
  /\ completions = 0
  /\ timerRead = NoRead
  /\ flags = 0
  /\ progressCalls = <<>>
  /\ reqs = <<>>

\* a live reference in place of the copy: the edit reaches the session too
EditQuestion_LiveReference ==
  /\ \E i \in 1..Len(bank) :
       /\ bank[i] # EditedVersion(bank[i], bank[i].updatedAt)
       /\ bank' = [bank EXCEPT ![i] = EditedVersion(bank[i], now)]
       /\ session' = [session EXCEPT !.questions =
                        [k \in 1..Len(@) |->
                           IF @[k].questionId = bank[i].id
                           THEN SnapshotOf(EditedVersion(bank[i], now)) ELSE @[k]]]
  /\ UNCHANGED <<progress, now, lastSubmit, submits, completions, timerRead,
                 flags, progressCalls, reqs, selected, user, authLog, attempts>>

\* a bank question is edited and saved
EditQuestion ==
  /\ \E i \in 1..Len(bank) :
       /\ bank[i] # EditedVersion(bank[i], bank[i].updatedAt)
       /\ QuestionPreSaveAccepts(EditedVersion(bank[i], now))
       /\ bank' = [bank EXCEPT ![i] = EditedVersion(bank[i], now)]
  /\ UNCHANGED <<session, progress, now, lastSubmit, submits, completions, timerRead,
                 flags, progressCalls, reqs, selected, user, authLog, attempts>>

\* a bank question is taken out of use
DeactivateQuestion ==
  /\ \E i \in 1..Len(bank) :
       /\ bank[i].isActive
       /\ bank' = [bank EXCEPT ![i] = [@ EXCEPT !.isActive = FALSE, !.updatedAt = now]]
  /\ UNCHANGED <<session, progress, now, lastSubmit, submits, completions, timerRead,
                 flags, progressCalls, reqs, selected, user, authLog, attempts>>

\* a bank question is deleted
DeleteQuestion ==
  /\ \E i \in 1..Len(bank) :
       bank' = SubSeq(bank, 1, i - 1) \o SubSeq(bank, i + 1, Len(bank))
  /\ UNCHANGED <<session, progress, now, lastSubmit, submits, completions, timerRead,
                 flags, progressCalls, reqs, selected, user, authLog, attempts>>

NextSnapshot ==
  SubmitAnswer \/ EditQuestion \/ DeactivateQuestion \/ DeleteQuestion \/ Tick

SpecSnapshot == InitSnapshot /\ [][NextSnapshot]_vars

-----------------------------------------------------------------------------
(* Question selection.  The bank holds up to MaxBank questions of the three *)
(* steps; answers keep changing the statistics of its first questions, and  *)
(* the questions of a new session are selected by one query.                *)

\* the shapes of bank the queries run on: every question of step 1 and
\* active, or the seventh one of step 2, the eleventh of step 3 and the
\* ninth inactive
BankShapes == {"uniform", "mixed"}

BankSizes == {3, DefaultLimit + 1, MaxBank}

BankQuestion(i, shape) ==
  LET step == IF shape = "mixed" /\ i = 7 THEN 2
              ELSE IF shape = "mixed" /\ i = 11 THEN 3 ELSE 1
      level == IF i % 2 = 0 THEN stepLevelMap[step].high ELSE stepLevelMap[step].low
      q == NewQuestion("b" \o ToString(i), step, level, ((i * 7) % 5) + 1, (i + 3) % 4, 1,
                       <<Opt("a", TRUE), Opt("b", FALSE)>>)
  IN  [q EXCEPT !.isActive = ~(shape = "mixed" /\ i = 9)]

\* the exclusion lists a query may carry
ExcludeLists == {<<>>, <<"b1">>, <<"b2", "b45">>}

InitSelector ==
  /\ \E size \in BankSizes, shape \in BankShapes :
       bank = [i \in 1..size |-> BankQuestion(i, shape)]
  /\ selected = NoSelection
  /\ session = NewSession(1, <<Q1, Q2>>)
  /\ user = NewUser
  /\ authLog = NoAuthLog
  /\ attempts = NoAttempts
  /\ progress = NewProgress
  /\ now = 0
  /\ lastSubmit = NoSubmit
  /\ submits = 0
  /\ completions = 0
  /\ timerRead = NoRead
  /\ flags = 0
  /\ progressCalls = <<>>
  /\ reqs = <<>>

\* Question.getQuestionsForStep(step, 44, excludeIds)
SelectQuestions ==
  /\ selected = NoSelection
  /\ \E step \in AssessmentStep, excludeIds \in ExcludeLists, tieOrder \in TieOrders :
       selected' = [step |-> step, excludeIds |-> excludeIds,
                    result |-> getQuestionsForStep(bank, step, DefaultLimit,
                                                   excludeIds, tieOrder)]
  /\ UNCHANGED <<session, progress, now, lastSubmit, submits, completions, timerRead,
                 flags, progressCalls, reqs, bank, user, authLog, attempts>>

\* question.incrementStats(isCorrect) on one of the first questions
IncrementStats ==
  /\ \E i \in 1..MaxTouched, isCorrect \in BOOLEAN :
       /\ i <= Len(bank)
       /\ bank[i].timesAnswered < MaxTimesAnswered
       /\ bank' = [bank EXCEPT ![i] = incrementStats(@, isCorrect, now)]
  /\ UNCHANGED <<session, progress, now, lastSubmit, submits, completions, timerRead,
                 flags, progressCalls, reqs, selected, user, authLog, attempts>>

NextSelector == SelectQuestions \/ IncrementStats

SpecSelector == InitSelector /\ [][NextSelector]_vars

-----------------------------------------------------------------------------
(* One-time passwords: the send-otp and verify-otp routes on one user.      *)
(* `authLog.wrong' counts the verify-otp requests with a code other than    *)
(* the current OTP's that were answered INVALID_OTP since that OTP was      *)
(* generated, `authLog.accepted' the requests it was accepted for.          *)

\* the six-digit codes tried
OTPCodes == {"111111", "222222"}

\* the code generateOTP draws
DrawnCodes == {"111111"}

\* the clock readings of the requests: at once, and after the first OTP has
\* expired
AuthTimePoints == {0, OTP_EXPIRE_TIME * 60 * 1000 + 1}

InitAuth ==
  /\ user = NewUser
  /\ authLog = NoAuthLog
  /\ attempts = NoAttempts
  /\ now = 0
  /\ bank = <<>>
  /\ selected = NoSelection
  /\ session = NewSession(1, <<Q1, Q2>>)
  /\ progress = NewProgress
  /\ lastSubmit = NoSubmit
  /\ submits = 0
  /\ completions = 0
  /\ timerRead = NoRead
  /\ flags = 0
  /\ progressCalls = <<>>
  /\ reqs = <<>>

TickAuth ==
  /\ \E t \in AuthTimePoints : t > now /\ now' = t
  /\ UNCHANGED <<session, progress, lastSubmit, submits, completions, timerRead, flags,
                 progressCalls, reqs, bank, selected, user, authLog, attempts>>

\* POST /send-otp: the limiter, then AuthController.sendOTP
SendOTPRequest ==
  \E ip \in Addresses, code \in DrawnCodes :
    LET limit == sensitiveOperationLimit(attempts["send-otp"][ip],
                                         RouteLimit["send-otp"], RateWindow, now)
    IN  /\ attempts' = [attempts EXCEPT !["send-otp"][ip] = limit.entry]
        /\ IF limit.next
           THEN /\ user' = generateOTP(user, code, now)
                /\ authLog' = [last |-> [op |-> "send-otp", status |-> 200],
                               wrong |-> 0, accepted |-> 0]
           ELSE /\ user' = user
                /\ authLog' = [authLog EXCEPT !.last = [op |-> "send-otp", status |-> 429]]
        /\ UNCHANGED <<session, progress, now, lastSubmit, submits, completions,
                       timerRead, flags, progressCalls, reqs, bank, selected>>

\* POST /verify-otp: the limiter, then AuthController.verifyOTP
VerifyOTPRequest ==
  \E ip \in Addresses, otp \in OTPCodes :
    LET limit == sensitiveOperationLimit(attempts["verify-otp"][ip],
                                         RouteLimit["verify-otp"], RateWindow, now)
        verified == verifyOTP(user, otp, now)
        isWrongCode == IsSet(user.otp) /\ Val(user.otp).code # otp
    IN  /\ attempts' = [attempts EXCEPT !["verify-otp"][ip] = limit.entry]
        /\ IF ~limit.next
           THEN /\ user' = user
                /\ authLog' = [authLog EXCEPT !.last = [op |-> "verify-otp", status |-> 429]]
           ELSE IF ~verified.ok
           THEN /\ user' = user
                /\ authLog' = [authLog EXCEPT
                                 !.last = [op |-> "verify-otp", status |-> 400],
                                 !.wrong = IF isWrongCode THEN @ + 1 ELSE @]
           ELSE /\ user' = clearOTP(verified.doc)
                /\ authLog' = [authLog EXCEPT
                                 !.last = [op |-> "verify-otp", status |-> 200],
                                 !.accepted = @ + 1]
        /\ UNCHANGED <<session, progress, now, lastSubmit, submits, completions,
                       timerRead, flags, progressCalls, reqs, bank, selected>>

NextOTP == SendOTPRequest \/ VerifyOTPRequest \/ TickAuth

SpecOTP == InitAuth /\ [][NextOTP]_vars

-----------------------------------------------------------------------------
(* Concurrent logins of one user.  Here `user' is the stored document; a    *)
(* login request passes the limiter, loads the user, and goes on after each *)
(* of its awaits (comparePassword, the update of the counter, the save),    *)
(* between which other requests run.  A request that has been answered no   *)
(* longer holds the document it loaded.                                     *)

\* the passwords tried: the user's and another
Passwords == {"secret", "wrong"}

\* the clock readings of the requests: at once, and after a lock set at
\* once has expired
LoginTimePoints == {0, LOCKOUT_DURATION * 60 * 1000 + 1}

LoginCall(password, status) == [op |-> "login", password |-> password, status |-> status]

InitLogin ==
  /\ user = NewUser
  /\ reqs = [r \in Requests |-> NewRequest(user)]
  /\ authLog = NoAuthLog
  /\ attempts = NoAttempts
  /\ now = 0
  /\ bank = <<>>
  /\ selected = NoSelection
  /\ session = NewSession(1, <<Q1, Q2>>)
  /\ progress = NewProgress
  /\ lastSubmit = NoSubmit
  /\ submits = 0
  /\ completions = 0
  /\ timerRead = NoRead
  /\ flags = 0
  /\ progressCalls = <<>>

TickLogin ==
  /\ \E t \in LoginTimePoints : t > now /\ now' = t
  /\ UNCHANGED <<session, progress, lastSubmit, submits, completions, timerRead, flags,
                 progressCalls, reqs, bank, selected, user, authLog, attempts>>

\* POST /login up to its first await on the password: the limiter, findOne,
\* the lock and isActive checks
LoginStart(r) ==
  /\ reqs[r].pc \in {"start", "done"}
  /\ \E ip \in Addresses, password \in Passwords :
       LET limit == sensitiveOperationLimit(attempts["login"][ip],
                                            RouteLimit["login"], RateWindow, now)
           answer(status) == [reqs EXCEPT ![r] = [pc |-> "done", base |-> NewUser,
                                                  doc |-> NewUser,
                                                  call |-> LoginCall(password, status)]]
       IN  /\ attempts' = [attempts EXCEPT !["login"][ip] = limit.entry]
           /\ reqs' = IF ~limit.next THEN answer(429)
                      ELSE IF isAccountLocked(user, now) THEN answer(423)
                      ELSE IF ~user.isActive THEN answer(401)
                      ELSE [reqs EXCEPT ![r] = [pc |-> "comparing", base |-> user,
                                                doc |-> user,
                                                call |-> LoginCall(password, 0)]]
  /\ UNCHANGED <<session, progress, now, lastSubmit, submits, completions, timerRead,
                 flags, progressCalls, bank, selected, user, authLog>>

\* comparePassword has answered: a wrong password counts a failed attempt
\* (incLoginAttempts) and is answered 401; the right one resets the counter
\* when the loaded document has one
LoginCompare(r) ==
  /\ reqs[r].pc = "comparing"
  /\ IF reqs[r].call.password # reqs[r].doc.password
     THEN /\ user' = incLoginAttempts(user, reqs[r].doc, now)
          /\ reqs' = [reqs EXCEPT ![r] = [pc |-> "done", base |-> NewUser, doc |-> NewUser,
                                           call |-> LoginCall(reqs[r].call.password, 401)]]
     ELSE /\ user' = IF reqs[r].doc.loginAttempts > 0
                     THEN resetLoginAttempts(user) ELSE user
          /\ reqs' = [reqs EXCEPT ![r].pc = "saving"]
  /\ UNCHANGED <<session, progress, now, lastSubmit, submits, completions, timerRead,
                 flags, progressCalls, bank, selected, authLog, attempts>>

\* lastLogin is set and saved, and the login is answered 200
LoginSave(r) ==
  /\ reqs[r].pc = "saving"
  /\ user' = [user EXCEPT !.lastLogin = Some(now)]
  /\ reqs' = [reqs EXCEPT ![r] = [pc |-> "done", base |-> NewUser, doc |-> NewUser,
                                   call |-> LoginCall(reqs[r].call.password, 200)]]
  /\ UNCHANGED <<session, progress, now, lastSubmit, submits, completions, timerRead,
                 flags, progressCalls, bank, selected, authLog, attempts>>

NextLogin ==
  \/ \E r \in Requests : LoginStart(r)
  \/ \E r \in Requests : LoginCompare(r)
  \/ \E r \in Requests : LoginSave(r)
  \/ TickLogin

SpecLogin == InitLogin /\ [][NextLogin]_vars

-----------------------------------------------------------------------------
(* Properties *)

ResultFields(s) ==
  <<s.score, s.percentage, s.levelAchieved, s.passed, s.canProceedToNextStep,
    s.endTime, s.nextStepUnlockedAt>>

\* a step taken by submitAnswer
IsSubmitStep == submits' = submits + 1

\* a step taken by markCompleted
IsCompleteStep == completions' = completions + 1

IdsOf(seq) == {seq[i].questionId : i \in 1..Len(seq)}

\* C1: once a session is completed, a further markCompleted call, and any
\* operation before it, leaves score, percentage, levelAchieved, passed,
\* canProceedToNextStep, endTime and nextStepUnlockedAt as the first call set
\* them.
C1_MarkCompletedIdempotent ==
  [][session.isCompleted => ResultFields(session') = ResultFields(session)]_vars

\* C1 witness: markCompleted ran a second time, later than the first and on
\* answers that no longer score what the first call stored.
C1_Witness ==
  /\ session.isCompleted
  /\ completions = 2
  /\ Val(session.endTime) < now
  /\ calculateScore(session).score # Val(session.score)

\* C2: one session's outcome never increments totalAssessmentsTaken twice.
\* (In SpecCompletion the progress record receives this session's outcome only.)
C2_FoldedOnce == progress.totalAssessmentsTaken <= 1

\* C3: markCompleted on a non-completed session sets passed = (percentage >= 25),
\* canProceedToNextStep = (percentage >= 75 and step < 3), status completed,
\* isCompleted, isSubmitted, endTime; nextStepUnlockedAt is set exactly when
\* canProceedToNextStep is; step 2 with 34 of 44 one-point questions correct
\* gives 77, passed and canProceedToNextStep.
C3_MarkCompletedResult ==
  [][ (IsCompleteStep /\ ~session.isCompleted) =>
        LET s == session'
            pct == Val(s.percentage)
        IN  /\ pct = calculateScore(session).percentage
            /\ s.passed = (pct >= 25)
            /\ s.canProceedToNextStep = (pct >= 75 /\ s.step < 3)
            /\ s.status = "completed"
            /\ s.isCompleted /\ s.isSubmitted
            /\ s.endTime = <<now>>
            /\ IsSet(s.nextStepUnlockedAt) = s.canProceedToNextStep
            /\ (s.step = 2 /\ Len(s.questions) = 44 /\ s.score = <<34>>
                  => pct = 77 /\ s.passed /\ s.canProceedToNextStep)
    ]_vars

\* C3 witness: the step-2 session with 34 of 44 correct, completed.
C3_Witness ==
  /\ session.isCompleted /\ completions = 1
  /\ session.step = 2 /\ Len(session.questions) = 44
  /\ session.score = <<34>> /\ session.percentage = <<77>>
  /\ session.passed /\ session.canProceedToNextStep
  /\ IsSet(session.nextStepUnlockedAt)

ExpectedLevel(step, pct) ==
  IF pct < 25 THEN "none"
  ELSE IF pct < 50
       THEN (CASE step = 1 -> "A1" [] step = 2 -> "B1" [] step = 3 -> "C1")
       ELSE (CASE step = 1 -> "A2" [] step = 2 -> "B2" [] step = 3 -> "C2")

\* C4: the level of a session of step s is none below 25 percent, the low
\* level of the step's pair from 25 to below 50, the high level from 50 on;
\* step 1 with 30 of 44 one-point questions correct gives 68 and A2.
C4_LevelBands ==
  /\ determineLevel(session) = ExpectedLevel(session.step, calculateScore(session).percentage)
  /\ session.isCompleted =>
       /\ session.levelAchieved = ExpectedLevel(session.step, Val(session.percentage))
       /\ (session.step = 1 /\ Len(session.questions) = 44 /\ session.score = <<30>>
             => session.percentage = <<68>> /\ session.levelAchieved = "A2")

\* C4 witness: the step-1 session with 30 of 44 correct, completed at level A2.
C4_Witness ==
  /\ session.isCompleted
  /\ session.step = 1 /\ Len(session.questions) = 44
  /\ session.score = <<30>> /\ session.percentage = <<68>>
  /\ session.levelAchieved = "A2"

\* the integer nearest to 100 * earned / total, halves rounded up
ExactRound(earned, total) == (200 * earned + total) \div (2 * total)

RECURSIVE SumCorrectPoints(_)
SumCorrectPoints(answers) ==
  IF answers = <<>> THEN 0
  ELSE (IF Head(answers).isCorrect THEN Head(answers).pointsEarned ELSE 0)
       + SumCorrectPoints(Tail(answers))

\* C5: score is the sum of pointsEarned over the correct answers, percentage
\* is round(score / total points x 100) (0 for no points), lies in 0..100 and
\* does not decrease with the score for a fixed total.
C5_ScoreAndPercentage ==
  LET r == calculateScore(session)
      total == SumPoints(session.questions)
  IN  /\ r.score = SumCorrectPoints(session.answers)
      /\ r.percentage = IF total = 0 THEN 0 ELSE ExactRound(r.score, total)
      /\ r.percentage \in 0..100
      /\ \A e \in 1..total : RoundPercent(e - 1, total) <= RoundPercent(e, total)

CorrectIdsOf(question) ==
  {question.options[i].id : i \in {j \in 1..Len(question.options) : question.options[j].isCorrect}}

QuestionOf(s, questionId) ==
  s.questions[CHOOSE i \in 1..Len(s.questions) : s.questions[i].questionId = questionId]

\* C6: every recorded answer is correct exactly when the set of its selected
\* ids equals the question's set of correct ids, and earns the question's
\* points when correct and 0 otherwise.
C6_CorrectIffSetEqual ==
  \A i \in 1..Len(session.answers) :
    LET a == session.answers[i]
        q == QuestionOf(session, a.questionId)
    IN  /\ a.isCorrect =
             ({a.selectedAnswers[k] : k \in 1..Len(a.selectedAnswers)} = CorrectIdsOf(q))
        /\ a.pointsEarned = IF a.isCorrect THEN q.points ELSE 0

C8_RejectsAfterCompletion ==
  [][ (IsSubmitStep /\ session.isCompleted) =>
        /\ lastSubmit'.error = "SessionAlreadyCompleted"
        /\ session'.answers = session.answers ]_vars

\* C9: submitAnswer on a session whose time budget has elapsed fails with
\* SessionExpired and records no answer.
C9_RejectsAfterExpiry ==
  [][ (IsSubmitStep /\ ~session.isCompleted
         /\ now - session.startTime >= session.timeAllowed * 1000) =>
        /\ lastSubmit'.error = "SessionExpired"
        /\ session'.answers = session.answers ]_vars

\* C10: submitAnswer for a questionId outside the session's snapshot fails
\* with an error and leaves the session, its answers and status included, as it was.
C10_UnknownQuestionNoMutation ==
  [][ (IsSubmitStep /\ lastSubmit'.questionId \notin IdsOf(session.questions)) =>
        /\ lastSubmit'.error # "none"
        /\ session' = session ]_vars

\* C10 witness: a submission for a question outside the snapshot was rejected
\* on a session that had not started.
C10_Witness ==
  /\ submits > 0
  /\ lastSubmit.questionId \notin IdsOf(session.questions)
  /\ lastSubmit.error = "Question not found in session"
  /\ session.status = "not_started"

\* C11: submitAnswer for a question of the snapshot whose correctness cannot
\* be computed (a question that is not multiple choice) fails and records no
\* answer, rather than an answer with isCorrect = false and 0 points.
C11_NoDefaultScoring ==
  [][ (/\ IsSubmitStep
       /\ lastSubmit'.questionId \in IdsOf(session.questions)
       /\ QuestionOf(session, lastSubmit'.questionId).questionType # "multiple_choice") =>
        /\ lastSubmit'.error # "none"
        /\ session'.answers = session.answers ]_vars

\* C12: in every state of a session, persisted ones included, isCompleted
\* implies status = completed and endTime set.
C12_CompletedHasStatusAndEndTime ==
  session.isCompleted => session.status = "completed" /\ IsSet(session.endTime)

\* C12 witness: a session completed by markCompleted after the clock moved,
\* then written to again by submitAnswer.
C12_Witness ==
  /\ session.isCompleted
  /\ completions > 0
  /\ Val(session.endTime) > 0
  /\ \E i \in 1..Len(session.answers) :
       session.answers[i].answeredAt >= Val(session.endTime)

\* C13: the status changes only from not_started to in_progress, on a
\* successful submitAnswer, and from in_progress to completed, on
\* markCompleted; completed is absorbing and the status never moves backward.
C13_StatusTransitions ==
  [][ session'.status # session.status =>
        \/ /\ session.status = "not_started" /\ session'.status = "in_progress"
           /\ IsSubmitStep /\ lastSubmit'.error = "none"
        \/ /\ session.status = "in_progress" /\ session'.status = "completed"
           /\ IsCompleteStep ]_vars

\* C13 amended: as C13, with markCompleted also taking a session that was
\* never answered from not_started straight to completed.
C13_StatusTransitionsAmended ==
  [][ session'.status # session.status =>
        \/ /\ session.status = "not_started" /\ session'.status = "in_progress"
           /\ IsSubmitStep /\ lastSubmit'.error = "none"
        \/ /\ session.status \in {"not_started", "in_progress"}
           /\ session'.status = "completed"
           /\ IsCompleteStep ]_vars

\* C13 witness: a session answered once (in_progress), completed later, and
\* answered again after its completion, still completed.
C13_Witness ==
  /\ session.status = "completed"
  /\ submits = 2 /\ lastSubmit.error = "none"
  /\ Len(session.answers) = 2
  /\ session.answers[1].answeredAt < Val(session.endTime)
  /\ session.answers[2].answeredAt >= Val(session.endTime)

\* C14: once markCompleted has run, no operation changes any field of the
\* session, and the stored score and percentage are those of the stored
\* answers.
C14_CompletedImmutable ==
  [][ session.isCompleted =>
        /\ session' = session
        /\ Val(session'.score) = calculateScore(session').score
        /\ Val(session'.percentage) = calculateScore(session').percentage ]_vars

\* a step that called getRemainingTime() and isExpired()
IsReadStep == timerRead' # timerRead

\* the whole seconds contained in ms milliseconds: the k with
\* k * 1000 <= ms < (k + 1) * 1000, looked for next to ms / 1000
WholeSeconds(ms) ==
  CHOOSE k \in (ms \div 1000 - 1)..(ms \div 1000 + 1) :
    k * 1000 <= ms /\ ms < (k + 1) * 1000

\* the time budget of s has elapsed at instant t
BudgetElapsed(s, t) == t >= s.startTime + s.timeAllowed * 1000

C16_AutoSubmitted ==
  (BudgetElapsed(session, now) /\ ~session.isCompleted) ~> session.isCompleted

\* a step taken by addCheatingFlag
IsFlagStep == flags' = flags + 1

\* C17: addCheatingFlag adds exactly one flag at the end of cheatingDetails,
\* keeps the earlier flags in place, and leaves answers, status and what
\* calculateScore, determineLevel and canProceedToNext return unchanged.
C17_PureAppend ==
  [][ IsFlagStep =>
        LET old == session.cheatingDetails
            new == session'.cheatingDetails
        IN  /\ Len(new) = Len(old) + 1
            /\ \A i \in 1..Len(old) : new[i] = old[i]
            /\ new[Len(new)].timestamp = now
            /\ new[Len(new)].type \in FlagTypes
            /\ session'.answers = session.answers
            /\ session'.status = session.status
            /\ calculateScore(session') = calculateScore(session)
            /\ determineLevel(session') = determineLevel(session)
            /\ canProceedToNext(session') = canProceedToNext(session)
    ]_vars

\* C17 witness: a flag appended behind an earlier one on a session whose
\* answers score above the advance threshold.
C17_Witness ==
  /\ flags = 1
  /\ Len(session.cheatingDetails) = 2
  /\ session.cheatingDetails[1].type = "copy_paste"
  /\ session.cheatingDetails[2].type = "tab_switch"
  /\ canProceedToNext(session)

\* C18: in every state reached by addCheatingFlag and save, hasCheatingFlags
\* is true exactly when cheatingDetails is not empty.
C18_FlagBitMatchesDetails ==
  session.hasCheatingFlags = (Len(session.cheatingDetails) > 0)

\* C18 witness: a session flagged after the clock moved and not saved since
\* (not completed either), with its flag bit set.
C18_Witness ==
  /\ flags = 1
  /\ ~session.isCompleted
  /\ Len(session.cheatingDetails) = 1
  /\ session.cheatingDetails[1].timestamp > 0
  /\ session.hasCheatingFlags

\* C19: canTakeStep(1) is true iff canRetakeStep1 is set or step 1 was never
\* completed; canTakeStep(2) iff step 1 is completed with step1Score >= 75;
\* canTakeStep(3) iff step 2 is completed with step2Score >= 75; no other
\* step number is eligible.
C19_CanTakeStep ==
  /\ canTakeStep(progress, 1) = (progress.canRetakeStep1 \/ ~progress.step1Completed)
  /\ canTakeStep(progress, 2) =
       (progress.step1Completed /\ \E v \in 75..100 : progress.step1Score = <<v>>)
  /\ canTakeStep(progress, 3) =
       (progress.step2Completed /\ \E v \in 75..100 : progress.step2Score = <<v>>)
  /\ \A step \in {-1, 0, 4, 5} : ~canTakeStep(progress, step)

\* C19 witness: step 1 failed (retake disabled) and step 2 reported at 75:
\* steps 1 and 2 are closed and step 3 is open.
C19_Witness ==
  /\ progress.step1Completed /\ ~progress.canRetakeStep1
  /\ progress.step2Completed /\ progress.step2Score = <<75>>
  /\ ~canTakeStep(progress, 1) /\ ~canTakeStep(progress, 2)
  /\ canTakeStep(progress, 3)

\* C20: getNextAvailableStep returns the lowest step of 1, 2, 3 that
\* canTakeStep accepts, and none exactly when it accepts no step, as after a
\* failed step 1 (retake disabled) with steps 2 and 3 unreached.
C20_NextAvailableStep ==
  LET eligible == {step \in {1, 2, 3} : canTakeStep(progress, step)}
  IN  /\ eligible # {} =>
           \E step \in eligible :
             /\ getNextAvailableStep(progress) = <<step>>
             /\ \A other \in eligible : step <= other
      /\ (getNextAvailableStep(progress) = <<>>) = (eligible = {})
      /\ (/\ progress.step1Completed /\ ~progress.canRetakeStep1
          /\ \E v \in 0..24 : progress.step1Score = <<v>>
          /\ ~progress.step2Completed /\ ~progress.step3Completed)
           => getNextAvailableStep(progress) = <<>>

\* C20 witness: step 1 was failed, its retake is disabled, steps 2 and 3 were
\* never reported, and no step is available.
C20_Witness ==
  /\ progress.step1Completed /\ progress.step1Score = <<24>>
  /\ ~progress.canRetakeStep1
  /\ ~progress.step2Completed /\ ~progress.step3Completed
  /\ getNextAvailableStep(progress) = <<>>

\* a step that called a method of the progress record
IsProgressCall == Len(progressCalls') = Len(progressCalls) + 1

\* the call of that step
ThisCall == progressCalls'[Len(progressCalls')]

IsStepCall == IsProgressCall /\ ThisCall.op = "updateStepProgress"

\* C21: a step-1 completion with score < 25 clears canRetakeStep1; once it is
\* false no step update, competency update or achievement makes it true
\* again, and canTakeStep(1) is false from then on.  5 of 44 correct in step 1
\* is 11 percent, not passed, no level, and clears the flag.
C21_RetakeClearedForGood ==
  [][ /\ (IsStepCall /\ ThisCall.step = 1 /\ ThisCall.score < 25) =>
           ~progress'.canRetakeStep1
      /\ ~progress.canRetakeStep1 => ~progress'.canRetakeStep1
      /\ ~progress'.canRetakeStep1 => ~canTakeStep(progress', 1)
      /\ (IsStepCall /\ ThisCall.step = 1 /\ ThisCall.score = 11) =>
           LET s == markCompleted(ScenarioSession(1, 44, 5, TRUE), 0)
           IN  /\ s.score = <<5>> /\ s.percentage = <<ThisCall.score>>
               /\ ~s.passed /\ s.levelAchieved = "none"
               /\ ThisCall.level = s.levelAchieved
    ]_vars

\* C21 witness: step 1 was failed at 11 percent, then reported again at 75,
\* then a competency was updated; the retake flag is still cleared.
C21_Witness ==
  /\ Len(progressCalls) = 3
  /\ progressCalls[1] = StepCall(1, 11, "none")
  /\ progressCalls[2] = StepCall(1, 75, "A2")
  /\ progressCalls[3].op = "updateCompetencyScore"
  /\ ~progress.canRetakeStep1
  /\ ~canTakeStep(progress, 1)

\* the completed flag, score and level of a step
StepFields(p, step) ==
  CASE step = 1 -> <<p.step1Completed, p.step1Score, p.step1Level>>
    [] step = 2 -> <<p.step2Completed, p.step2Score, p.step2Level>>
    [] step = 3 -> <<p.step3Completed, p.step3Score, p.step3Level>>

StepCompletedAt(p, step) ==
  CASE step = 1 -> p.step1CompletedAt
    [] step = 2 -> p.step2CompletedAt
    [] step = 3 -> p.step3CompletedAt

\* C22: updateStepProgress(s, score, level) sets step s's completed flag,
\* score, level and completion timestamp and adds exactly 1 to
\* totalAssessmentsTaken; the completed flag, score and level of the other two
\* steps, the competency scores and the achievements stay as they were.
C22_StepUpdateFrame ==
  [][ IsStepCall =>
        /\ StepFields(progress', ThisCall.step) =
             <<TRUE, <<ThisCall.score>>, ThisCall.level>>
        /\ StepCompletedAt(progress', ThisCall.step) = <<now>>
        /\ progress'.totalAssessmentsTaken = progress.totalAssessmentsTaken + 1
        /\ \A other \in {1, 2, 3} \ {ThisCall.step} :
             StepFields(progress', other) = StepFields(progress, other)
        /\ progress'.competencyScores = progress.competencyScores
        /\ progress'.achievements = progress.achievements
    ]_vars

\* C22 witness: step 2 reported on a record that holds a competency score and
\* an achievement and has step 1 unreported.
C22_Witness ==
  /\ Len(progressCalls) = 3
  /\ progressCalls[3] = StepCall(2, 74, "B2")
  /\ Len(progress.competencyScores) = 1
  /\ Len(progress.achievements) = 1
  /\ progress.step2Completed /\ ~progress.step1Completed /\ ~progress.step3Completed
  /\ progress.totalAssessmentsTaken = 1

\* C23: in every persisted progress state currentStep is 3 if step 2 or
\* step 3 is completed, else 2 if step 1 is completed, else 1.
C23_CurrentStep ==
  progress.currentStep =
    IF progress.step2Completed \/ progress.step3Completed THEN 3
    ELSE IF progress.step1Completed THEN 2
    ELSE 1

\* C23 witness: step 2 was reported on a record whose step 1 never was, then
\* a competency score was saved; currentStep is 3.
C23_Witness ==
  /\ Len(progressCalls) = 2
  /\ progressCalls[1].op = "updateStepProgress" /\ progressCalls[1].step = 2
  /\ progressCalls[2].op = "updateCompetencyScore"
  /\ ~progress.step1Completed /\ ~progress.step3Completed
  /\ progress.currentStep = 3

\* the per-step levels currently set
LevelsSet(p) == {l \in {p.step1Level, p.step2Level, p.step3Level} : l # "none"}

\* C24: in every persisted progress state highestLevelAchieved is the
\* maximum, under A1 < A2 < B1 < B2 < C1 < C2, of the per-step levels
\* currently set, also after a step was re-completed with a lower level or
\* with no level (with no level set at all it is the A1 a record starts with).
C24_HighestLevel ==
  IF LevelsSet(progress) = {}
  THEN progress.highestLevelAchieved = NewProgress.highestLevelAchieved
  ELSE /\ progress.highestLevelAchieved \in LevelsSet(progress)
       /\ \A l \in LevelsSet(progress) :
            LevelIndex(l) <= LevelIndex(progress.highestLevelAchieved)

\* the step scores that are set, as a sequence
ScoresSet(p) == SelectSeq(<<p.step1Score, p.step2Score, p.step3Score>>, IsSet)

\* C25: in every persisted progress state with at least one step score set,
\* averageScore is the mean of exactly the step scores that are set.
C25_AverageIsMean ==
  LET scores == ScoresSet(progress)
  IN  Len(scores) > 0 =>
        progress.averageScore * Len(scores) = SumScores(scores)

\* C25 amended: ... averageScore is the mean of exactly the step scores that
\* are set, rounded to the nearest integer, a half rounded up.
C25_AverageIsRoundedMean ==
  LET scores == ScoresSet(progress)
      n == Len(scores)
      avg == progress.averageScore
  IN  n > 0 =>
        /\ 2 * n * avg <= 2 * SumScores(scores) + n
        /\ 2 * SumScores(scores) + n < 2 * n * (avg + 1)

\* C25 witness: steps 1 and 3 scored 24 and 75, step 2 has no score; the
\* average is 50 (49.5 rounded up), not 33.
C25_Witness ==
  /\ progress.step1Score = <<24>> /\ progress.step2Score = <<>>
  /\ progress.step3Score = <<75>>
  /\ progress.averageScore = 50

\* the positions of the updateCompetencyScore calls made for a competency
CallsFor(competency) ==
  {i \in 1..Len(progressCalls) :
     /\ progressCalls[i].op = "updateCompetencyScore"
     /\ progressCalls[i].competency = competency}

RECURSIVE SumQuestionsAttempted(_)
SumQuestionsAttempted(positions) ==
  IF positions = {} THEN 0
  ELSE LET i == CHOOSE x \in positions : TRUE
       IN  progressCalls[i].result.questionsAttempted
           + SumQuestionsAttempted(positions \ {i})

RECURSIVE SumCorrectAnswers(_)
SumCorrectAnswers(positions) ==
  IF positions = {} THEN 0
  ELSE LET i == CHOOSE x \in positions : TRUE
       IN  progressCalls[i].result.correctAnswers
           + SumCorrectAnswers(positions \ {i})

\* C26: after any sequence of updateCompetencyScore calls there is exactly one
\* entry per competency ever attempted and none for any other; its score is
\* the highest score ever passed for the competency, its questionsAttempted
\* and correctAnswers are the sums over all the calls, its level is that of
\* the latest call.
C26_CompetencyUpsert ==
  /\ \A i \in 1..Len(progress.competencyScores) :
       CallsFor(progress.competencyScores[i].competency) # {}
  /\ \A competency \in Competencies :
       LET calls == CallsFor(competency)
           entries == {i \in 1..Len(progress.competencyScores) :
                         progress.competencyScores[i].competency = competency}
       IN  calls # {} =>
             /\ Cardinality(entries) = 1
             /\ \A e \in entries :
                  LET entry == progress.competencyScores[e]
                      latest == CHOOSE i \in calls : \A j \in calls : j <= i
                  IN  /\ \E i \in calls : entry.score = progressCalls[i].result.score
                      /\ \A i \in calls : progressCalls[i].result.score <= entry.score
                      /\ entry.questionsAttempted = SumQuestionsAttempted(calls)
                      /\ entry.correctAnswers = SumCorrectAnswers(calls)
                      /\ entry.level = progressCalls[latest].result.level

\* C26 witness: a competency scored 80, then 40, with another competency in
\* between: its entry keeps 80, carries the level of the 40 and the sums.
C26_Witness ==
  /\ Len(progressCalls) = 3
  /\ CallsFor("information_search") = {1, 3}
  /\ CallsFor("data_management") = {2}
  /\ progressCalls[1].result.score = 80 /\ progressCalls[3].result.score = 40
  /\ Len(progress.competencyScores) = 2
  /\ progress.competencyScores[1] =
       [competency |-> "information_search", score |-> 80, level |-> "A1",
        questionsAttempted |-> 3, correctAnswers |-> 2, lastUpdated |-> 0]

IsAchievementCall == IsProgressCall /\ ThisCall.op = "addAchievement"

\* C27: addAchievement with an id already present changes nothing, with a new
\* id it appends the achievement; achievement ids are pairwise distinct, and
\* no step removes or modifies an achievement already there.
C27_AchievementsIdempotent ==
  [][ LET old == progress.achievements
          new == progress'.achievements
      IN  /\ IsAchievementCall =>
               IF \E i \in 1..Len(old) : old[i].id = ThisCall.achievement.id
               THEN progress' = progress
               ELSE new = Append(old, ThisCall.achievement)
          /\ Len(new) >= Len(old)
          /\ \A i \in 1..Len(old) : new[i] = old[i]
          /\ \A i, j \in 1..Len(new) : new[i].id = new[j].id => i = j
    ]_vars

\* C27 witness: an achievement was added, added again under the same id with
\* another name, and a second achievement was added: two achievements, the
\* first as it was first given.
C27_Witness ==
  /\ Len(progressCalls) = 3
  /\ \A i \in 1..3 : progressCalls[i].op = "addAchievement"
  /\ progressCalls[1].achievement.name = "First pass"
  /\ progressCalls[2].achievement.name = "Passed again"
  /\ Len(progress.achievements) = 2
  /\ progress.achievements[1].name = "First pass"
  /\ progress.achievements[2].id = "fast"

\* C28: no persisted progress state reflects the step update of a completion
\* without the competency upsert of the same completion: every
\* updateStepProgress that has been persisted is followed, in the same
\* persisted state, by its updateCompetencyScore.
C28_CompletionAtomic ==
  \A i \in 1..Len(progressCalls) :
    progressCalls[i].op = "updateStepProgress" =>
      /\ i < Len(progressCalls)
      /\ progressCalls[i + 1].op = "updateCompetencyScore"
      /\ progress.totalAssessmentsTaken
           <= Cardinality(CallsFor("information_search"))
              + Cardinality(CallsFor("data_management"))

\* every request has finished
AllRequestsOver == \A r \in Requests : reqs[r].pc \in {"done", "failed"}

\* C29: when two requests each load the same session, call submitAnswer or
\* markCompleted and save, then either the stored session reflects both
\* mutations or the later writer fails: answers submitted for different
\* questions are all stored, a completion stays stored as completed, and no
\* answer lands after the scored completion (the stored score and percentage
\* are those of the stored answers).
C29_SessionSerialized ==
  AllRequestsOver =>
    /\ \A r \in Requests :
         (/\ reqs[r].call.op = "submitAnswer" /\ reqs[r].pc = "done"
          /\ \A o \in Requests \ {r} :
               reqs[o].call.op = "submitAnswer" =>
                 reqs[o].call.questionId # reqs[r].call.questionId)
           => \E i \in 1..Len(session.answers) :
                /\ session.answers[i].questionId = reqs[r].call.questionId
                /\ session.answers[i].selectedAnswers = reqs[r].call.selectedAnswers
    /\ (\E r \in Requests : reqs[r].call.op = "markCompleted") =>
         /\ session.isCompleted /\ session.status = "completed"
         /\ Val(session.score) = calculateScore(session).score
         /\ Val(session.percentage) = calculateScore(session).percentage

\* C30: after two concurrent completions for the same user
\* totalAssessmentsTaken has grown by 2, both step updates are present, and
\* the derived fields match the stored step fields.
C30_ProgressSerialized ==
  AllRequestsOver =>
    /\ progress.totalAssessmentsTaken = Cardinality(Requests)
    /\ \A r \in Requests :
         (\A o \in Requests \ {r} : reqs[o].call.step # reqs[r].call.step) =>
           StepFields(progress, reqs[r].call.step) =
             <<TRUE, <<reqs[r].call.score>>, reqs[r].call.level>>
    /\ progress.currentStep =
         IF progress.step2Completed \/ progress.step3Completed THEN 3
         ELSE IF progress.step1Completed THEN 2 ELSE 1
    /\ LevelsSet(progress) # {} =>
         /\ progress.highestLevelAchieved \in LevelsSet(progress)
         /\ \A l \in LevelsSet(progress) :
              LevelIndex(l) <= LevelIndex(progress.highestLevelAchieved)
    /\ LET scores == ScoresSet(progress)
           n == Len(scores)
       IN  /\ 2 * n * progress.averageScore <= 2 * SumScores(scores) + n
           /\ 2 * SumScores(scores) + n < 2 * n * (progress.averageScore + 1)

\* the embedded questions the session was created with
SnapshotAtCreation == [i \in 1..Len(InitialBank) |-> SnapshotOf(InitialBank[i])]

\* C31: whatever happens to the bank after the session was created, the
\* session's stored questions are those it was created with, and every
\* recorded answer carries the correctness and the points that submitAnswer
\* computes from the question as it was at creation.
C31_SnapshotIsValueCopy ==
  /\ session.questions = SnapshotAtCreation
  /\ \A i \in 1..Len(session.answers) :
       LET a == session.answers[i]
           q == SnapshotAtCreation[IndexOfId(SnapshotAtCreation, a.questionId)]
       IN  /\ a.isCorrect = checkAnswerCorrectness(q, a.selectedAnswers)
           /\ a.pointsEarned = IF a.isCorrect THEN q.points ELSE 0

\* q1 was edited in the bank or deleted from it, and the session then
\* recorded an answer to q1
C31_Witness ==
  /\ \/ \E i \in 1..Len(bank) :
          /\ bank[i].id = "q1"
          /\ SnapshotOf(bank[i]) # SnapshotAtCreation[1]
          /\ \E k \in 1..Len(session.answers) :
               /\ session.answers[k].questionId = "q1"
               /\ session.answers[k].answeredAt > bank[i].updatedAt
     \/ /\ \A i \in 1..Len(bank) : bank[i].id # "q1"
        /\ \E k \in 1..Len(session.answers) : session.answers[k].questionId = "q1"
  /\ \E k \in 1..Len(session.answers) :
       /\ session.answers[k].questionId = "q1"
       /\ session.answers[k].selectedAnswers = <<"a">>
       /\ session.answers[k].isCorrect
       /\ session.answers[k].pointsEarned = 1

\* the step made is the selector's query
IsSelectStep == selected = NoSelection /\ selected' # NoSelection

\* the bank questions that qualify for step s with exclusion list E
Qualifying(b, s, E) ==
  {i \in 1..Len(b) :
     /\ b[i].isActive
     /\ b[i].level \in {stepLevelMap[s].low, stepLevelMap[s].high}
     /\ \A k \in 1..Len(E) : E[k] # b[i].id}

\* q does not come before p: ascending difficulty, then ascending timesAnswered
NotAfter(p, q) ==
  \/ p.difficulty < q.difficulty
  \/ p.difficulty = q.difficulty /\ p.timesAnswered <= q.timesAnswered

\* C32: the selector for step s with exclusion list E returns at most 44
\* questions, each of them an active bank question with a level of the pair
\* of s and an id outside E, in ascending order of difficulty and then of
\* times answered; when more than 44 questions qualify it returns 44 and no
\* question left out comes before a returned one; the bank is not modified.
C32_Selector ==
  [][ IsSelectStep =>
        LET result == selected'.result
            s == selected'.step
            E == selected'.excludeIds
            qualifying == Qualifying(bank, s, E)
            returned == {i \in qualifying : \E k \in 1..Len(result) : result[k] = bank[i]}
        IN  /\ bank' = bank
            /\ Len(result) <= 44
            /\ Cardinality(returned) = Len(result)
            /\ \A k \in 1..Len(result) : \E i \in qualifying : result[k] = bank[i]
            /\ \A k \in 1..(Len(result) - 1) : NotAfter(result[k], result[k + 1])
            /\ Cardinality(qualifying) > 44 =>
                 /\ Len(result) = 44
                 /\ \A i \in qualifying \ returned :
                      \A k \in 1..Len(result) : NotAfter(result[k], bank[i])
    ]_vars

\* a query with an exclusion list ran on a bank with more than 44 qualifying
\* questions, some of them inactive, and returned 44 of them
C32_Witness ==
  /\ selected # NoSelection
  /\ selected.excludeIds # <<>>
  /\ Len(selected.result) = 44
  /\ Cardinality(Qualifying(bank, selected.step, selected.excludeIds)) > 44
  /\ \E i \in 1..Len(bank) : ~bank[i].isActive

\* C33: eligibility for step 2 follows the latest step-1 completion only:
\* after every step-1 completion canTakeStep(2) holds exactly when that
\* completion's score is at least 75, so a step-1 completion with a lower
\* score takes away the eligibility that an earlier one had earned.
C33_EligibilityFromLatestAttempt ==
  [][ (IsStepCall /\ ThisCall.step = 1) =>
        /\ canTakeStep(progress', 2) = (ThisCall.score >= 75)
        /\ (canTakeStep(progress, 2) /\ ThisCall.score < 75) => ~canTakeStep(progress', 2)
    ]_vars

\* step 1 was completed at 75 (step 2 open), then completed again at 74:
\* step 2 is closed
C33_Witness ==
  /\ Len(progressCalls) = 2
  /\ progressCalls[1] = StepCall(1, 75, "A2")
  /\ canTakeStep(updateStepProgress(NewProgress, 1, 75, "A2", 0), 2)
  /\ progressCalls[2] = StepCall(1, 74, "A2")
  /\ progress.step1Score = <<74>>
  /\ ~canTakeStep(progress, 2)

\* C34: when a completed session of step s in {1, 2} has its stored score and
\* level applied to the progress record, canTakeStep(s + 1) is true after
\* the update if the session's canProceedToNextStep is true, and false if
\* it is false.
C34_AdvanceFlagMatchesGate ==
  [][ (/\ IsStepCall
       /\ session.isCompleted
       /\ session.step \in {1, 2}
       /\ ThisCall = StepCall(session.step, Val(session.score), session.levelAchieved))
        => canTakeStep(progress', session.step + 1) = session.canProceedToNextStep
    ]_vars

\* C35: after a user's first step-1 completion with a score of at least 75
\* getNextAvailableStep returns 2, and after a step-2 completion with a score
\* of at least 75 it returns 3, not a lower step that was already passed.
C35_AutomaticAdvancement ==
  [][ /\ (/\ IsStepCall /\ ThisCall.step = 1 /\ ThisCall.score >= 75
          /\ ~progress.step1Completed)
           => getNextAvailableStep(progress') = <<2>>
      /\ (IsStepCall /\ ThisCall.step = 2 /\ ThisCall.score >= 75)
           => getNextAvailableStep(progress') = <<3>>
    ]_vars

\* C36: highestLevelAchieved never decreases: across any sequence of step
\* completions applied to one progress record, each persisted value is at
\* least the previous one in the order A1 < A2 < B1 < B2 < C1 < C2.
C36_HighestLevelMonotonic ==
  [][ LevelIndex(progress.highestLevelAchieved)
        <= LevelIndex(progress'.highestLevelAchieved) ]_vars

\* C37: in every completed session passed is true exactly when levelAchieved
\* is set, canProceedToNextStep implies passed and levelAchieved equal to
\* the high level of the step's pair, and a step-3 session never has
\* canProceedToNextStep true.
C37_ResultFieldsConsistent ==
  session.isCompleted =>
    /\ session.passed = (session.levelAchieved # "none")
    /\ session.canProceedToNextStep =>
         /\ session.passed
         /\ session.levelAchieved = stepLevelMap[session.step].high
    /\ session.step = 3 => ~session.canProceedToNextStep

\* a completed step-2 session at 77 percent (34 of 44) passed, may proceed
\* and has level B2
C37_Witness ==
  /\ session.isCompleted
  /\ session.step = 2 /\ Len(session.questions) = 44
  /\ session.score = <<34>> /\ session.percentage = <<77>>
  /\ session.canProceedToNextStep /\ session.passed
  /\ session.levelAchieved = "B2"

\* C38: markCompleted can always persist its result: for every session with
\* 1 to 50 questions of 1 to 10 points each and any answers, the score it
\* stores is between 0 and 100, so its save is not rejected and the stored
\* session is completed after the call.
C38_CompletionPersists ==
  [][ IsCompleteStep =>
        LET score == calculateScore(session).score
        IN  /\ ~session.isCompleted => (score >= 0 /\ score <= 100)
            /\ session'.isCompleted
    ]_vars

\* C39: for one generated OTP, once more than 5 verify-otp requests with a
\* wrong code were made, a verify-otp request with the correct code is not
\* accepted; and an OTP is accepted at most once.
C39_OTPGuessingBounded ==
  [][ /\ authLog'.accepted = authLog.accepted + 1 => authLog.wrong <= 5
      /\ authLog'.accepted <= 1
    ]_vars

\* C40: under any interleaving of login requests, a step that brings the
\* stored loginAttempts to MAX_LOGIN_ATTEMPTS by a failed login leaves the
\* account locked (lockUntil in the future); no login with the correct
\* password passes the password check while the stored account is locked;
\* and a login answered 200 leaves the stored counter reset.
C40_LoginLockout ==
  [][ /\ ( /\ user.loginAttempts < MAX_LOGIN_ATTEMPTS
           /\ user'.loginAttempts >= MAX_LOGIN_ATTEMPTS )
         => isAccountLocked(user', now')
      /\ \A r \in Requests :
           (reqs[r].pc = "comparing" /\ reqs'[r].pc = "saving")
             => ~isAccountLocked(user, now)
      /\ \A r \in Requests :
           (reqs[r].pc = "saving" /\ reqs'[r].pc = "done")
             => user'.loginAttempts = 0
    ]_vars

====
